---- MODULE Spec2Model ----
(***************************************************************************)
(* A model of TypedAPIAdapter (src/src/TypedAPIAdapter.ts): the contract   *)
(* files it reads, the TypeScript program it caches, the extraction of a   *)
(* contract description from the `Contract` object literal, and the        *)
(* validation operations over that description.                            *)
(*                                                                         *)
(* Strings are sequences of one-character strings, so that startsWith,     *)
(* parseInt, the placeholder pattern and getText are computed as the code  *)
(* computes them.  JavaScript values are tagged records.                   *)
(***************************************************************************)
EXTENDS Integers, Sequences, FiniteSets, TLC

VARIABLES
  files,        \* location -> file on disk (exists, statements)
  dirReadable,  \* whether contractsBasePath can be listed
  program,      \* this.program: null, or the source files compiled at creation
  typeChecker,  \* this.typeChecker: "null" or "TypeChecker"
  pending,      \* calls suspended on their await (fs.readFile / fs.access)
  ret,          \* what the last step returned to its caller (kind "none" if nothing)
  lastVC,       \* the validateContract results returned since the files, the
                \* directory or the adapter's life cycle last changed
  initialized,  \* whether an initialize() call has returned
  released      \* whether cleanup() has returned with no initialize() call since

vars == <<files, dirReadable, program, typeChecker, pending, ret, lastVC, initialized,
         released>>

(***************************************************************************)
(* JavaScript values                                                       *)
(***************************************************************************)
JUndefined == [t |-> "undefined"]
JNull == [t |-> "null"]
JBool(b) == [t |-> "boolean", b |-> b]
JNum(n) == [t |-> "number", n |-> n]
JStr(s) == [t |-> "string", s |-> s]
JArr(a) == [t |-> "array", a |-> a]
\* o: sequence of <<key, value>> in insertion order, keys unique
JObj(o) == [t |-> "object", o |-> o]

\* ToBoolean, as used by `!x`, `x && ...`, `x ? :`, `x || y`
Truthy(v) ==
  CASE v.t = "undefined" -> FALSE
    [] v.t = "null" -> FALSE
    [] v.t = "boolean" -> v.b
    [] v.t = "number" -> v.n # 0
    [] v.t = "string" -> v.s # <<>>
    [] OTHER -> TRUE

\* typeof x
TypeOf(v) ==
  CASE v.t = "null" -> "object"
    [] v.t = "array" -> "object"
    [] OTHER -> v.t

\* Array.isArray(x)
IsArray(v) == v.t = "array"

Digits == {"0", "1", "2", "3", "4", "5", "6", "7", "8", "9"}

DigitVal(c) ==
  CASE c = "0" -> 0 [] c = "1" -> 1 [] c = "2" -> 2 [] c = "3" -> 3
    [] c = "4" -> 4 [] c = "5" -> 5 [] c = "6" -> 6 [] c = "7" -> 7
    [] c = "8" -> 8 [] c = "9" -> 9

DigitChar(d) ==
  CASE d = 0 -> "0" [] d = 1 -> "1" [] d = 2 -> "2" [] d = 3 -> "3"
    [] d = 4 -> "4" [] d = 5 -> "5" [] d = 6 -> "6" [] d = 7 -> "7"
    [] d = 8 -> "8" [] d = 9 -> "9"

\* the value of a string of decimal digits
RECURSIVE DigitsValue(_)
DigitsValue(s) ==
  IF s = <<>> THEN 0
  ELSE 10 * DigitsValue(SubSeq(s, 1, Len(s) - 1)) + DigitVal(s[Len(s)])

\* the longest prefix of s made of decimal digits
RECURSIVE DigitPrefix(_)
DigitPrefix(s) ==
  IF s = <<>> \/ s[1] \notin Digits THEN <<>>
  ELSE <<s[1]>> \o DigitPrefix(Tail(s))

RECURSIVE SkipSpaces(_)
SkipSpaces(s) ==
  IF s # <<>> /\ s[1] = " " THEN SkipSpaces(Tail(s)) ELSE s

\* parseInt(s, 10): leading white space and one sign are skipped, then the
\* longest run of digits is read and whatever follows it is ignored
ParseInt(s) ==
  LET t == SkipSpaces(s)
      neg == t # <<>> /\ t[1] = "-"
      u == IF t # <<>> /\ t[1] \in {"-", "+"} THEN Tail(t) ELSE t
      d == DigitPrefix(u)
  IN IF d = <<>> THEN [nan |-> TRUE, n |-> 0]
     ELSE [nan |-> FALSE, n |-> IF neg THEN 0 - DigitsValue(d) ELSE DigitsValue(d)]

\* Number.prototype.toString() of a non-negative integer
RECURSIVE NumToString(_)
NumToString(n) ==
  IF n < 10 THEN <<DigitChar(n)>>
  ELSE NumToString(n \div 10) \o <<DigitChar(n % 10)>>

\* parseFloat of the text of a numeric literal (decimal integer literals)
ParseFloat(s) == DigitsValue(DigitPrefix(s))

\* String.prototype.startsWith
StartsWith(s, prefix) ==
  Len(s) >= Len(prefix) /\ SubSeq(s, 1, Len(prefix)) = prefix

\* the characters of [a-zA-Z0-9_]
WordChars ==
  Digits \cup {"_"} \cup
  {"a", "b", "c", "d", "e", "f", "g", "h", "i", "j", "k", "l", "m",
   "n", "o", "p", "q", "r", "s", "t", "u", "v", "w", "x", "y", "z"} \cup
  {"A", "B", "C", "D", "E", "F", "G", "H", "I", "J", "K", "L", "M",
   "N", "O", "P", "Q", "R", "S", "T", "U", "V", "W", "X", "Y", "Z"}

RECURSIVE WordPrefix(_)
WordPrefix(s) ==
  IF s = <<>> \/ s[1] \notin WordChars THEN <<>>
  ELSE <<s[1]>> \o WordPrefix(Tail(s))

\* (path.match(/\:[a-zA-Z0-9_]+/g) || []).map(param => param.substring(1)):
\* the placeholder names of a path, one per occurrence, left to right
RECURSIVE PathParams(_)
PathParams(s) ==
  IF s = <<>> THEN <<>>
  ELSE IF s[1] = ":" /\ WordPrefix(Tail(s)) # <<>>
       THEN <<WordPrefix(Tail(s))>>
            \o PathParams(SubSeq(s, 2 + Len(WordPrefix(Tail(s))), Len(s)))
       ELSE PathParams(Tail(s))

\* an array index key: a canonical decimal integer below 2^32 - 1
IsArrayIndex(k) ==
  /\ k # <<>>
  /\ \A i \in 1..Len(k) : k[i] \in Digits
  /\ (Len(k) = 1 \/ k[1] # "0")
  /\ Len(k) <= 9

\* the own keys of an object in insertion order
RawKeys(o) == [i \in 1..Len(o) |-> o[i][1]]

RECURSIVE SelectKeys(_, _)
SelectKeys(ks, wantIndex) ==
  IF ks = <<>> THEN <<>>
  ELSE IF IsArrayIndex(ks[1]) = wantIndex
       THEN <<ks[1]>> \o SelectKeys(Tail(ks), wantIndex)
       ELSE SelectKeys(Tail(ks), wantIndex)

IndexKeyBefore(a, b) == DigitsValue(a) < DigitsValue(b)

RECURSIVE IndexKeysOfArray(_)
IndexKeysOfArray(n) ==
  IF n = 0 THEN <<>> ELSE IndexKeysOfArray(n - 1) \o <<NumToString(n - 1)>>

\* Object.keys(x): array-index keys in ascending numeric order, then the
\* other keys in insertion order; the indices of an array or a string
ObjectKeys(v) ==
  CASE v.t = "object" ->
         SortSeq(SelectKeys(RawKeys(v.o), TRUE), IndexKeyBefore)
           \o SelectKeys(RawKeys(v.o), FALSE)
    [] v.t = "array" -> IndexKeysOfArray(Len(v.a))
    [] v.t = "string" -> IndexKeysOfArray(Len(v.s))
    [] OTHER -> <<>>

HasKey(o, k) == \E i \in 1..Len(o) : o[i][1] = k

\* obj[k] = val: a new key is appended, an existing key keeps its place
ObjSet(o, k, val) ==
  IF HasKey(o, k)
  THEN [i \in 1..Len(o) |-> IF o[i][1] = k THEN <<k, val>> ELSE o[i]]
  ELSE Append(o, <<k, val>>)

\* x[k] for a value x that is neither null nor undefined (own properties)
Get(v, k) ==
  CASE v.t = "object" ->
         IF HasKey(v.o, k)
         THEN v.o[CHOOSE i \in 1..Len(v.o) : v.o[i][1] = k][2]
         ELSE JUndefined
    [] v.t = "array" ->
         IF IsArrayIndex(k) /\ DigitsValue(k) < Len(v.a)
         THEN v.a[DigitsValue(k) + 1]
         ELSE JUndefined
    [] v.t = "string" ->
         IF IsArrayIndex(k) /\ DigitsValue(k) < Len(v.s)
         THEN JStr(<<v.s[DigitsValue(k) + 1]>>)
         ELSE JUndefined
    [] OTHER -> JUndefined

\* reading a property of null or undefined is a TypeError
GetThrows(v) == v.t \in {"undefined", "null"}

(***************************************************************************)
(* Syntax trees of contract files (the nodes the adapter inspects)         *)
(***************************************************************************)
StringLiteral(s) == [k |-> "StringLiteral", text |-> s]
NumericLiteral(s) == [k |-> "NumericLiteral", text |-> s]
Identifier(s) == [k |-> "Identifier", text |-> s]
\* any other expression: an identifier reference, a call, `{...} as const`, ...
Expression(s) == [k |-> "Expression", text |-> s]
TrueKeyword == [k |-> "TrueKeyword"]
FalseKeyword == [k |-> "FalseKeyword"]
NullKeyword == [k |-> "NullKeyword"]
ObjectLiteralExpression(props) ==
  [k |-> "ObjectLiteralExpression", properties |-> props]
ArrayLiteralExpression(elems) ==
  [k |-> "ArrayLiteralExpression", elements |-> elems]
PropertyAssignment(name, init) ==
  [k |-> "PropertyAssignment", name |-> name, initializer |-> init]
ShorthandPropertyAssignment(name) ==
  [k |-> "ShorthandPropertyAssignment", name |-> name]
\* a variable statement, by its first declaration
VariableStatement(name, init) ==
  [k |-> "VariableStatement", name |-> Identifier(name), initializer |-> init]
TypeAliasDeclaration(name) ==
  [k |-> "TypeAliasDeclaration", name |-> Identifier(name)]
\* a declaration without initializer
NoInitializer == [k |-> "NoInitializer"]

\* node.getText(): the source text of the node; a string literal keeps its quotes
GetText(node) ==
  IF node.k = "StringLiteral" THEN <<"'">> \o node.text \o <<"'">>
  ELSE node.text

RECURSIVE ExtractContractDetails(_)
RECURSIVE ExtractArrayDetails(_)
RECURSIVE ExtractProperties(_, _)
RECURSIVE ExtractElements(_)

\* the value stored for one property initializer
PropertyValue(init) ==
  CASE init.k = "StringLiteral" -> JStr(init.text)
    [] init.k = "NumericLiteral" -> JNum(ParseFloat(init.text))
    [] init.k = "TrueKeyword" -> JBool(TRUE)
    [] init.k = "FalseKeyword" -> JBool(FALSE)
    [] init.k = "NullKeyword" -> JNull
    [] init.k = "ObjectLiteralExpression" -> ExtractContractDetails(init)
    [] init.k = "ArrayLiteralExpression" -> ExtractArrayDetails(init)
    [] OTHER -> JStr(GetText(init))

\* node.properties.forEach(...): only property assignments are stored
ExtractProperties(props, contract) ==
  IF props = <<>> THEN contract
  ELSE IF Head(props).k = "PropertyAssignment"
       THEN ExtractProperties(
              Tail(props),
              ObjSet(contract, GetText(Head(props).name),
                     PropertyValue(Head(props).initializer)))
       ELSE ExtractProperties(Tail(props), contract)

ExtractContractDetails(node) == JObj(ExtractProperties(node.properties, <<>>))

\* the value pushed for one array element
ElementValue(element) ==
  CASE element.k = "StringLiteral" -> JStr(element.text)
    [] element.k = "NumericLiteral" -> JNum(ParseFloat(element.text))
    [] element.k = "TrueKeyword" -> JBool(TRUE)
    [] element.k = "FalseKeyword" -> JBool(FALSE)
    [] element.k = "NullKeyword" -> JNull
    [] element.k = "ObjectLiteralExpression" -> ExtractContractDetails(element)
    [] element.k = "ArrayLiteralExpression" -> ExtractArrayDetails(element)
    [] OTHER -> JStr(GetText(element))

ExtractElements(elems) ==
  IF elems = <<>> THEN <<>>
  ELSE <<ElementValue(Head(elems))>> \o ExtractElements(Tail(elems))

ExtractArrayDetails(node) == JArr(ExtractElements(node.elements))

\* ts.forEachChild(sourceFile, ...) of readContract: every variable statement
\* named Contract sets exportName; each one initialised by an object literal
\* replaces the contract found so far
RECURSIVE FindContract(_, _)
FindContract(statements, found) ==
  IF statements = <<>> THEN found
  ELSE LET node == Head(statements)
       IN IF /\ node.k = "VariableStatement"
             /\ GetText(node.name) = <<"C", "o", "n", "t", "r", "a", "c", "t">>
          THEN FindContract(
                 Tail(statements),
                 [contract |-> IF node.initializer.k = "ObjectLiteralExpression"
                               THEN ExtractContractDetails(node.initializer)
                               ELSE found.contract,
                  exportName |-> JStr(GetText(node.name))])
          ELSE FindContract(Tail(statements), found)

\* whether a top-level variable statement declares `name`
DeclaresVariable(statements, name) ==
  \E i \in 1..Len(statements) :
    statements[i].k = "VariableStatement" /\ GetText(statements[i].name) = name

\* whether a top-level type alias is named `name`
DeclaresTypeAlias(statements, name) ==
  \E i \in 1..Len(statements) :
    statements[i].k = "TypeAliasDeclaration" /\ GetText(statements[i].name) = name

(***************************************************************************)
(* Paths and the contracts directory                                       *)
(***************************************************************************)
\* this.contractsBasePath, as path.resolve sees it
contractsBasePath == <<"/", "c", "o", "n", "t", "r", "a", "c", "t", "s">>

\* the files of the model: one directly in the contracts directory and one in
\* a subdirectory of it, which the environment writes and removes, and two
\* more names in the directory for the contracts mocks are generated from
LocInDir == contractsBasePath \o <<"/", "a", "p", "i", "-", "k", "e", "y", ".", "g", "e", "t", ".", "t", "s">>
LocInSub == contractsBasePath \o <<"/", "v", "1", "/", "u", "s", "e", "r", ".", "p", "o", "s", "t", ".", "t", "s">>
LocPlain == contractsBasePath \o <<"/", "u", "s", "e", "r", "s", ".", "t", "s">>
LocPost == contractsBasePath \o <<"/", "a", "p", "i", "-", "k", "e", "y", ".", "p", "o", "s", "t", ".", "t", "s">>
ChangingLocations == {LocInDir, LocInSub}
Locations == ChangingLocations \cup {LocPlain, LocPost}

\* contract references a caller passes: relative ones and an absolute one
ContractRefs == {<<"a", "p", "i", "-", "k", "e", "y", ".", "g", "e", "t", ".", "t", "s">>, <<"v", "1", "/", "u", "s", "e", "r", ".", "p", "o", "s", "t", ".", "t", "s">>, LocInDir}

NoFile == [exists |-> FALSE, statements |-> <<>>]
SourceFile(statements) == [exists |-> TRUE, statements |-> statements]

\* String.prototype.endsWith
EndsWith(s, suffix) ==
  Len(s) >= Len(suffix) /\ SubSeq(s, Len(s) - Len(suffix) + 1, Len(s)) = suffix

\* the position of the last occurrence of character c in s, 0 if none
RECURSIVE LastIndexOf(_, _)
LastIndexOf(s, c) ==
  IF s = <<>> THEN 0
  ELSE IF s[Len(s)] = c THEN Len(s)
       ELSE LastIndexOf(SubSeq(s, 1, Len(s) - 1), c)

\* the last segment of a path
LastSegment(p) == SubSeq(p, LastIndexOf(p, "/") + 1, Len(p))

\* path.extname(p): from the last dot of the last segment, unless that dot
\* starts the segment
ExtName(p) ==
  LET b == LastSegment(p)
      i == LastIndexOf(b, ".")
  IN IF i <= 1 THEN <<>> ELSE SubSeq(b, i, Len(b))

\* path.basename(p, ext)
BaseName(p, ext) ==
  LET b == LastSegment(p)
  IN IF ext # <<>> /\ ext # b /\ EndsWith(b, ext)
     THEN SubSeq(b, 1, Len(b) - Len(ext))
     ELSE b

\* path.basename(contractPath, path.extname(contractPath))
ContractName(contractPath) == BaseName(contractPath, ExtName(contractPath))

\* path.isAbsolute
IsAbsolute(p) == p # <<>> /\ p[1] = "/"

\* path.resolve(this.contractsBasePath, file)
PathResolve(file) == contractsBasePath \o <<"/">> \o file

resolveContractPath(contractPath) ==
  IF IsAbsolute(contractPath) THEN contractPath ELSE PathResolve(contractPath)

\* the first segment of a relative path
RECURSIVE FirstSegment(_)
FirstSegment(p) ==
  IF p = <<>> \/ p[1] = "/" THEN <<>>
  ELSE <<p[1]>> \o FirstSegment(Tail(p))

\* require('fs').readdirSync(this.contractsBasePath): the names of the
\* entries (files and subdirectories) directly in the directory
ReaddirSync ==
  LET prefix == contractsBasePath \o <<"/">>
  IN { FirstSegment(SubSeq(l, Len(prefix) + 1, Len(l))) :
         l \in { x \in Locations : files[x].exists /\ StartsWith(x, prefix) } }

\* findContractFiles(): the .ts and .js entries, resolved; [] when the
\* directory cannot be read
findContractFiles ==
  IF dirReadable
  THEN { PathResolve(file) :
           file \in { f \in ReaddirSync : EndsWith(f, <<".", "t", "s">>) \/ EndsWith(f, <<".", "j", "s">>) } }
  ELSE {}

(***************************************************************************)
(* The compiled program                                                    *)
(***************************************************************************)
NullProgram == [created |-> FALSE, sourceFiles |-> [l \in Locations |-> NoFile]]

\* ts.createProgram(fileNames, ...): the root files are read and parsed now
CreateProgram(fileNames) ==
  [created |-> TRUE,
   sourceFiles |-> [l \in Locations |-> IF l \in fileNames THEN files[l] ELSE NoFile]]

\* mutant of initTypeScriptCompiler: a program that exists is disposed of
\* and left to be rebuilt by the next call
initTypeScriptCompilerDisposing(prog, checker) ==
  IF prog.created
  THEN [program |-> NullProgram, typeChecker |-> "null"]
  ELSE IF findContractFiles # {}
  THEN [program |-> CreateProgram(findContractFiles), typeChecker |-> "TypeChecker"]
  ELSE [program |-> prog, typeChecker |-> checker]

\* initTypeScriptCompiler(), started from the given program and checker:
\* both are replaced when files are found and left as they are otherwise
initTypeScriptCompiler(prog, checker) ==
  IF findContractFiles # {}
  THEN [program |-> CreateProgram(findContractFiles), typeChecker |-> "TypeChecker"]
  ELSE [program |-> prog, typeChecker |-> checker]

\* a message built from a template and the values put into it
Msg(id, args) == [id |-> id, args |-> args]

\* mutant of readContract: the source file is looked up in the program the
\* call started with, so the call that builds the program finds no contract
readContractFromBeforeBuild(prog, checker, contractPath) ==
  LET resolvedPath == resolveContractPath(contractPath)
      onDisk == IF resolvedPath \in Locations THEN files[resolvedPath] ELSE NoFile
      ts == IF ~prog.created
            THEN initTypeScriptCompiler(prog, checker)
            ELSE [program |-> prog, typeChecker |-> checker]
      sourceFile == IF resolvedPath \in Locations
                    THEN prog.sourceFiles[resolvedPath]
                    ELSE NoFile
      found == FindContract(sourceFile.statements,
                            [contract |-> JNull, exportName |-> JUndefined])
  IN IF ~onDisk.exists
     THEN [threw |-> TRUE,
           error |-> Msg("Failed to read contract file ${resolvedPath}: ${message}",
                         <<JStr(resolvedPath),
                           Msg("ENOENT: no such file or directory, open ${path}",
                               <<JStr(resolvedPath)>>)>>),
           program |-> prog, typeChecker |-> checker]
     ELSE IF ~prog.created \/ checker = "null" \/ ~sourceFile.exists
     THEN [threw |-> FALSE, path |-> resolvedPath, content |-> onDisk,
           contract |-> JUndefined, exportName |-> JUndefined,
           sourceFile |-> NoFile,
           program |-> ts.program, typeChecker |-> ts.typeChecker]
     ELSE [threw |-> FALSE, path |-> resolvedPath, content |-> onDisk,
           contract |-> found.contract, exportName |-> found.exportName,
           sourceFile |-> sourceFile,
           program |-> ts.program, typeChecker |-> ts.typeChecker]

readContractBeforeBuild(contractPath) ==
  readContractFromBeforeBuild(program, typeChecker, contractPath)

\* mutant of readContract: the compiler is initialised on every call, not
\* only while the program is null
readContractAlwaysInit(contractPath) ==
  LET resolvedPath == resolveContractPath(contractPath)
      onDisk == IF resolvedPath \in Locations THEN files[resolvedPath] ELSE NoFile
      ts == initTypeScriptCompiler(program, typeChecker)
      sourceFile == IF resolvedPath \in Locations
                    THEN ts.program.sourceFiles[resolvedPath]
                    ELSE NoFile
      found == FindContract(sourceFile.statements,
                            [contract |-> JNull, exportName |-> JUndefined])
  IN IF ~onDisk.exists
     THEN [threw |-> TRUE,
           error |-> Msg("Failed to read contract file ${resolvedPath}: ${message}",
                         <<JStr(resolvedPath),
                           Msg("ENOENT: no such file or directory, open ${path}",
                               <<JStr(resolvedPath)>>)>>),
           program |-> program, typeChecker |-> typeChecker]
     ELSE IF ~ts.program.created \/ ts.typeChecker = "null" \/ ~sourceFile.exists
     THEN [threw |-> FALSE, path |-> resolvedPath, content |-> onDisk,
           contract |-> JUndefined, exportName |-> JUndefined,
           sourceFile |-> NoFile,
           program |-> ts.program, typeChecker |-> ts.typeChecker]
     ELSE [threw |-> FALSE, path |-> resolvedPath, content |-> onDisk,
           contract |-> found.contract, exportName |-> found.exportName,
           sourceFile |-> sourceFile,
           program |-> ts.program, typeChecker |-> ts.typeChecker]

\* mutant of readContract: no lazy initialisation, the call works with the
\* program the adapter holds
readContractFromAsHeld(prog, checker, contractPath) ==
  LET resolvedPath == resolveContractPath(contractPath)
      onDisk == IF resolvedPath \in Locations THEN files[resolvedPath] ELSE NoFile
      sourceFile == IF resolvedPath \in Locations
                    THEN prog.sourceFiles[resolvedPath]
                    ELSE NoFile
      found == FindContract(sourceFile.statements,
                            [contract |-> JNull, exportName |-> JUndefined])
  IN IF ~onDisk.exists
     THEN [threw |-> TRUE,
           error |-> Msg("Failed to read contract file ${resolvedPath}: ${message}",
                         <<JStr(resolvedPath),
                           Msg("ENOENT: no such file or directory, open ${path}",
                               <<JStr(resolvedPath)>>)>>),
           program |-> prog, typeChecker |-> checker]
     ELSE IF ~prog.created \/ checker = "null"
     THEN [threw |-> FALSE, path |-> resolvedPath, content |-> onDisk,
           contract |-> JUndefined, exportName |-> JUndefined,
           sourceFile |-> NoFile,
           program |-> prog, typeChecker |-> checker]
     ELSE IF ~sourceFile.exists
     THEN [threw |-> FALSE, path |-> resolvedPath, content |-> onDisk,
           contract |-> JUndefined, exportName |-> JUndefined,
           sourceFile |-> onDisk,
           program |-> prog, typeChecker |-> checker]
     ELSE [threw |-> FALSE, path |-> resolvedPath, content |-> onDisk,
           contract |-> found.contract, exportName |-> found.exportName,
           sourceFile |-> sourceFile,
           program |-> prog, typeChecker |-> checker]

\* readContract(contractPath), run when the read of the file completes on an
\* adapter whose fields are `prog` and `checker`: what it returns or throws,
\* and the program and checker it leaves
readContractFrom(prog, checker, contractPath) ==
  LET resolvedPath == resolveContractPath(contractPath)
      onDisk == IF resolvedPath \in Locations THEN files[resolvedPath] ELSE NoFile
      ts == IF ~prog.created
            THEN initTypeScriptCompiler(prog, checker)
            ELSE [program |-> prog, typeChecker |-> checker]
      sourceFile == IF resolvedPath \in Locations
                    THEN ts.program.sourceFiles[resolvedPath]
                    ELSE NoFile
      found == FindContract(sourceFile.statements,
                            [contract |-> JNull, exportName |-> JUndefined])
  IN IF ~onDisk.exists
     THEN [threw |-> TRUE,
           error |-> Msg("Failed to read contract file ${resolvedPath}: ${message}",
                         <<JStr(resolvedPath),
                           Msg("ENOENT: no such file or directory, open ${path}",
                               <<JStr(resolvedPath)>>)>>),
           program |-> prog, typeChecker |-> checker]
     ELSE IF ~ts.program.created \/ ts.typeChecker = "null"
     THEN [threw |-> FALSE, path |-> resolvedPath, content |-> onDisk,
           contract |-> JUndefined, exportName |-> JUndefined,
           sourceFile |-> NoFile,
           program |-> ts.program, typeChecker |-> ts.typeChecker]
     ELSE IF ~sourceFile.exists
     THEN [threw |-> FALSE, path |-> resolvedPath, content |-> onDisk,
           contract |-> JUndefined, exportName |-> JUndefined,
           sourceFile |-> onDisk,
           program |-> ts.program, typeChecker |-> ts.typeChecker]
     ELSE [threw |-> FALSE, path |-> resolvedPath, content |-> onDisk,
           contract |-> found.contract, exportName |-> found.exportName,
           sourceFile |-> sourceFile,
           program |-> ts.program, typeChecker |-> ts.typeChecker]

\* readContract(contractPath) on the adapter as it is now
readContract(contractPath) ==
  readContractFrom(program, typeChecker, contractPath)

(***************************************************************************)
(* validateContract                                                        *)
(***************************************************************************)
\* what an operation delivers to its caller: the value its promise resolves
\* to, or the error it rejects with
Returned(value) == [kind |-> "return", value |-> value]
Thrown(error) == [kind |-> "throw", value |-> error]

\* mutant of ValidationResult: a warning makes the result fail
ValidationResultNoWarnings(errors, warnings, details) ==
  [success |-> Len(errors) = 0 /\ Len(warnings) = 0, errors |-> errors,
   warnings |-> warnings, details |-> details]

\* a ValidationResult; errors and warnings are <<>> where the code leaves
\* them undefined (it never returns an empty array)
ValidationResult(errors, warnings, details) ==
  [success |-> Len(errors) = 0, errors |-> errors, warnings |-> warnings,
   details |-> details]

\* the early return of an operation that found no contract
NotFoundResult(message, contractPath, info) ==
  [success |-> FALSE, errors |-> <<Msg(message, <<>>)>>, warnings |-> <<>>,
   details |-> JObj(<<
     <<<<"c", "o", "n", "t", "r", "a", "c", "t", "N", "a", "m", "e">>, JStr(ContractName(contractPath))>>,
     <<<<"p", "a", "t", "h">>, JStr(info.path)>> >>)]

\* the catch clause of a validation operation
CaughtResult(message, error) ==
  [success |-> FALSE, errors |-> <<Msg(message, <<error>>)>>, warnings |-> <<>>,
   details |-> JUndefined]

\* for (const field of requiredFields) if (!contract[field]) errors.push(...)
RECURSIVE RequiredFieldErrors(_, _)
RequiredFieldErrors(contract, requiredFields) ==
  IF requiredFields = <<>> THEN <<>>
  ELSE (IF ~Truthy(Get(contract, Head(requiredFields)))
        THEN <<Msg("Missing required field: ${field}", <<JStr(Head(requiredFields))>>)>>
        ELSE <<>>)
       \o RequiredFieldErrors(contract, Tail(requiredFields))

Methods == {<<"g", "e", "t">>, <<"p", "o", "s", "t">>, <<"p", "u", "t">>, <<"d", "e", "l", "e", "t", "e">>, <<"p", "a", "t", "c", "h">>}

\* ['get', 'post', 'put', 'delete', 'patch'].includes(x)
IsMethod(v) == v.t = "string" /\ v.s \in Methods

MethodErrors(contract) ==
  LET method == Get(contract, <<"m", "e", "t", "h", "o", "d">>)
  IN IF Truthy(method) /\ ~IsMethod(method)
     THEN <<Msg("Invalid method: ${contract.method}. Must be one of: get, post, put, delete, patch",
                <<method>>)>>
     ELSE <<>>

\* contract.path.startsWith / contract.path.match on a truthy value that is
\* no string: TypeError
PathThrows(contract) ==
  LET path == Get(contract, <<"p", "a", "t", "h">>)
  IN Truthy(path) /\ path.t # "string"

PathErrors(contract) ==
  LET path == Get(contract, <<"p", "a", "t", "h">>)
  IN IF Truthy(path) /\ ~StartsWith(path.s, <<"/">>)
     THEN <<Msg("Invalid path: ${contract.path}. Must start with /", <<path>>)>>
     ELSE <<>>

\* isNaN(statusCode) || statusCode < 100 || statusCode > 599
InvalidStatusCode(key) ==
  LET statusCode == ParseInt(key)
  IN statusCode.nan \/ statusCode.n < 100 \/ statusCode.n > 599

RECURSIVE StatusCodeErrors(_)
StatusCodeErrors(responseKeys) ==
  IF responseKeys = <<>> THEN <<>>
  ELSE (IF InvalidStatusCode(Head(responseKeys))
        THEN <<Msg("Invalid status code in response: ${key}. Must be a valid HTTP status code (100-599)",
                   <<JStr(Head(responseKeys))>>)>>
        ELSE <<>>)
       \o StatusCodeErrors(Tail(responseKeys))

ResponseErrors(contract) ==
  LET response == Get(contract, <<"r", "e", "s", "p", "o", "n", "s", "e">>)
  IN IF Truthy(response) /\ TypeOf(response) = "object"
     THEN IF Len(ObjectKeys(response)) = 0
          THEN <<Msg("Response object must have at least one status code", <<>>)>>
          ELSE StatusCodeErrors(ObjectKeys(response))
     ELSE <<>>

\* contract.auth.authorization when contract.auth is truthy, else undefined
Authorization(contract) ==
  IF Truthy(Get(contract, <<"a", "u", "t", "h">>))
  THEN Get(Get(contract, <<"a", "u", "t", "h">>), <<"a", "u", "t", "h", "o", "r", "i", "z", "a", "t", "i", "o", "n">>)
  ELSE JUndefined

RolesErrors(contract) ==
  LET roles == Get(Authorization(contract), <<"r", "o", "l", "e", "s">>)
  IN IF Truthy(Authorization(contract)) /\ Truthy(roles)
        /\ ~IsArray(roles) /\ TypeOf(roles) # "string"
     THEN <<Msg("Authorization roles must be a string or array of strings", <<>>)>>
     ELSE <<>>

ScopesErrors(contract) ==
  LET scopes == Get(Authorization(contract), <<"s", "c", "o", "p", "e", "s">>)
  IN IF Truthy(Authorization(contract)) /\ Truthy(scopes)
        /\ ~IsArray(scopes) /\ TypeOf(scopes) # "string"
     THEN <<Msg("Authorization scopes must be a string or array of strings", <<>>)>>
     ELSE <<>>

\* contract.auth.authorization.claims when it is validated, else undefined
ClaimsOf(contract) ==
  IF Truthy(Authorization(contract))
  THEN Get(Authorization(contract), <<"c", "l", "a", "i", "m", "s">>)
  ELSE JUndefined

\* claims.forEach((claim, index) => ...), from position index on
RECURSIVE ClaimErrors(_, _)
ClaimErrors(claims, index) ==
  IF index >= Len(claims) THEN <<>>
  ELSE (IF ~Truthy(Get(claims[index + 1], <<"u", "s", "e", "r", "C", "l", "a", "i", "m", "P", "a", "t", "h">>))
        THEN <<Msg("Claim at index ${index} is missing required field userClaimPath",
                   <<JNum(index)>>)>>
        ELSE <<>>)
       \o (IF ~Truthy(Get(claims[index + 1], <<"r", "o", "u", "t", "e", "P", "a", "r", "a", "m", "N", "a", "m", "e">>))
           THEN <<Msg("Claim at index ${index} is missing required field routeParamName",
                      <<JNum(index)>>)>>
           ELSE <<>>)
       \o ClaimErrors(claims, index + 1)

\* claim.userClaimPath on a null element: TypeError
ClaimsThrow(contract) ==
  LET claims == ClaimsOf(contract)
  IN IsArray(claims) /\ \E i \in 1..Len(claims.a) : GetThrows(claims.a[i])

ClaimsErrors(contract) ==
  LET claims == ClaimsOf(contract)
  IN IF ~Truthy(claims) THEN <<>>
     ELSE IF ~IsArray(claims)
     THEN <<Msg("Authorization claims must be an array", <<>>)>>
     ELSE ClaimErrors(claims.a, 0)

\* the warning of validateContract for placeholders without a params schema
PathParamsWarnings(contract) ==
  LET path == Get(contract, <<"p", "a", "t", "h">>)
  IN IF Truthy(path) /\ Len(PathParams(path.s)) > 0
        /\ ~Truthy(Get(contract, <<"p", "a", "r", "a", "m", "s">>))
     THEN <<Msg("Path contains parameters (${pathParams.join(', ')}) but no params schema is defined",
                <<JArr([i \in 1..Len(PathParams(path.s)) |-> JStr(PathParams(path.s)[i])])>>)>>
     ELSE <<>>

\* the errors of validateContract, in the order the rules push them
ContractErrors(contract) ==
  RequiredFieldErrors(contract, <<<<"p", "a", "t", "h">>, <<"m", "e", "t", "h", "o", "d">>, <<"r", "e", "s", "p", "o", "n", "s", "e">>>>)
    \o MethodErrors(contract)
    \o PathErrors(contract)
    \o ResponseErrors(contract)
    \o RolesErrors(contract)
    \o ScopesErrors(contract)
    \o ClaimsErrors(contract)

\* the TypeError the rules of validateContract raise, if any
ContractThrows(contract) == PathThrows(contract) \/ ClaimsThrow(contract)

ContractTypeError(contract) ==
  IF PathThrows(contract)
  THEN Msg("TypeError: contract.path.startsWith is not a function", <<>>)
  ELSE Msg("TypeError: Cannot read properties of null (reading 'userClaimPath')", <<>>)

JStrings(keys) == JArr([i \in 1..Len(keys) |-> JStr(keys[i])])

\* the details of a completed validateContract
ContractDetails(contractPath, info) ==
  LET contract == info.contract
      tags == Get(contract, <<"t", "a", "g", "s">>)
      summary == Get(contract, <<"s", "u", "m", "m", "a", "r", "y">>)
      response == Get(contract, <<"r", "e", "s", "p", "o", "n", "s", "e">>)
      auth == Get(contract, <<"a", "u", "t", "h">>)
  IN JObj(<<
       <<<<"c", "o", "n", "t", "r", "a", "c", "t", "N", "a", "m", "e">>, JStr(ContractName(contractPath))>>,
       <<<<"p", "a", "t", "h">>, JStr(info.path)>>,
       <<<<"m", "e", "t", "h", "o", "d">>, Get(contract, <<"m", "e", "t", "h", "o", "d">>)>>,
       <<<<"a", "p", "i", "P", "a", "t", "h">>, Get(contract, <<"p", "a", "t", "h">>)>>,
       <<<<"t", "a", "g", "s">>, IF Truthy(tags)
                  THEN IF IsArray(tags) THEN tags ELSE JArr(<<tags>>)
                  ELSE JArr(<<>>)>>,
       <<<<"s", "u", "m", "m", "a", "r", "y">>, IF Truthy(summary) THEN summary
                     ELSE JStr(<<"N", "o", " ", "s", "u", "m", "m", "a", "r", "y", " ", "p", "r", "o", "v", "i", "d", "e", "d">>)>>,
       <<<<"h", "a", "s", "P", "a", "r", "a", "m", "s">>, JBool(Truthy(Get(contract, <<"p", "a", "r", "a", "m", "s">>)))>>,
       <<<<"h", "a", "s", "Q", "u", "e", "r", "y">>, JBool(Truthy(Get(contract, <<"q", "u", "e", "r", "y">>)))>>,
       <<<<"h", "a", "s", "B", "o", "d", "y">>, JBool(Truthy(Get(contract, <<"b", "o", "d", "y">>)))>>,
       <<<<"r", "e", "s", "p", "o", "n", "s", "e", "S", "t", "a", "t", "u", "s", "e", "s">>, IF Truthy(response)
                              THEN JStrings(ObjectKeys(response))
                              ELSE JArr(<<>>)>>,
       <<<<"r", "e", "q", "u", "i", "r", "e", "s", "A", "u", "t", "h">>,
         JBool(~GetThrows(auth)
               /\ Get(auth, <<"r", "e", "q", "u", "i", "r", "e", "s", "A", "u", "t", "h", "e", "n", "t", "i", "c", "a", "t", "i", "o", "n">>) = JBool(TRUE))>> >>)

\* validateContract(contractPath) after its await: the ValidationResult it
\* resolves to, given what readContract returned or threw
validateContract(contractPath, info) ==
  Returned(
    IF info.threw
    THEN CaughtResult("Failed to validate contract: ${message}", info.error)
    ELSE IF ~Truthy(info.contract)
    THEN NotFoundResult("Contract export not found in the file", contractPath, info)
    ELSE IF ContractThrows(info.contract)
    THEN CaughtResult("Failed to validate contract: ${message}",
                      ContractTypeError(info.contract))
    ELSE ValidationResult(ContractErrors(info.contract),
                          PathParamsWarnings(info.contract),
                          ContractDetails(contractPath, info)))

(***************************************************************************)
(* validateRequestType and validateResponseType                            *)
(***************************************************************************)
LowerCase == <<"a", "b", "c", "d", "e", "f", "g", "h", "i", "j", "k", "l", "m", "n", "o", "p", "q", "r", "s", "t", "u", "v", "w", "x", "y", "z">>
UpperCase == <<"A", "B", "C", "D", "E", "F", "G", "H", "I", "J", "K", "L", "M", "N", "O", "P", "Q", "R", "S", "T", "U", "V", "W", "X", "Y", "Z">>

\* String.prototype.toUpperCase
ToUpperCase(s) ==
  [i \in 1..Len(s) |->
     IF \E j \in 1..26 : LowerCase[j] = s[i]
     THEN UpperCase[CHOOSE j \in 1..26 : LowerCase[j] = s[i]]
     ELSE s[i]]

\* ['post', 'put', 'patch'].includes(x)
IsBodyMethod(v) == v.t = "string" /\ v.s \in {<<"p", "o", "s", "t">>, <<"p", "u", "t">>, <<"p", "a", "t", "c", "h">>}

\* contract.path.match(...) on a path that is no string: TypeError
MatchThrows(contract) == Get(contract, <<"p", "a", "t", "h">>).t # "string"

\* !contract || !sourceFile
NoContractOrSource(info) == ~Truthy(info.contract) \/ ~info.sourceFile.exists

RequestTypeErrors(contract) ==
  LET pathParams == PathParams(Get(contract, <<"p", "a", "t", "h">>).s)
  IN IF Len(pathParams) > 0 /\ ~Truthy(Get(contract, <<"p", "a", "r", "a", "m", "s">>))
     THEN <<Msg("Path contains parameters (${pathParams.join(', ')}) but no params schema is defined",
                <<JStrings(pathParams)>>)>>
     ELSE <<>>

RequestTypeWarnings(contract, sourceFile) ==
  LET method == Get(contract, <<"m", "e", "t", "h", "o", "d">>)
  IN (IF method = JStr(<<"g", "e", "t">>) /\ Truthy(Get(contract, <<"q", "u", "e", "r", "y">>))
         /\ ~DeclaresVariable(sourceFile.statements, <<"Q", "u", "e", "r", "y", "S", "c", "h", "e", "m", "a">>)
      THEN <<Msg("Contract has a query parameter but QuerySchema is not exported", <<>>)>>
      ELSE <<>>)
     \o (IF IsBodyMethod(method) /\ ~Truthy(Get(contract, <<"b", "o", "d", "y">>))
         THEN <<Msg("${contract.method.toUpperCase()} request typically requires a body schema",
                    <<JStr(ToUpperCase(method.s))>>)>>
         ELSE <<>>)

RequestTypeDetails(contractPath, info) ==
  LET contract == info.contract
      method == Get(contract, <<"m", "e", "t", "h", "o", "d">>)
      pathParams == PathParams(Get(contract, <<"p", "a", "t", "h">>).s)
  IN JObj(
       << <<<<"c", "o", "n", "t", "r", "a", "c", "t", "N", "a", "m", "e">>, JStr(ContractName(contractPath))>>,
          <<<<"p", "a", "t", "h">>, JStr(info.path)>>,
          <<<<"m", "e", "t", "h", "o", "d">>, method>>,
          <<<<"a", "p", "i", "P", "a", "t", "h">>, Get(contract, <<"p", "a", "t", "h">>)>> >>
       \o (IF Len(pathParams) > 0
           THEN << <<<<"p", "a", "t", "h", "P", "a", "r", "a", "m", "s">>, JStrings(pathParams)>> >>
           ELSE <<>>)
       \o (IF Len(pathParams) > 0 /\ Truthy(Get(contract, <<"p", "a", "r", "a", "m", "s">>))
           THEN << <<<<"h", "a", "s", "P", "a", "r", "a", "m", "s", "S", "c", "h", "e", "m", "a">>, JBool(TRUE)>> >>
           ELSE <<>>)
       \o (IF method = JStr(<<"g", "e", "t">>) /\ Truthy(Get(contract, <<"q", "u", "e", "r", "y">>))
           THEN << <<<<"h", "a", "s", "Q", "u", "e", "r", "y", "S", "c", "h", "e", "m", "a">>, JBool(TRUE)>> >>
           ELSE <<>>)
       \o (IF IsBodyMethod(method) /\ Truthy(Get(contract, <<"b", "o", "d", "y">>))
           THEN << <<<<"h", "a", "s", "B", "o", "d", "y", "S", "c", "h", "e", "m", "a">>, JBool(TRUE)>> >>
           ELSE <<>>))

validateRequestType(contractPath, info) ==
  Returned(
    IF info.threw
    THEN CaughtResult("Failed to validate request type: ${message}", info.error)
    ELSE IF NoContractOrSource(info)
    THEN NotFoundResult(
           "Contract export not found in the file or could not parse source file",
           contractPath, info)
    ELSE IF MatchThrows(info.contract)
    THEN CaughtResult("Failed to validate request type: ${message}",
                      Msg("TypeError: contract.path.match is not a function", <<>>))
    ELSE ValidationResult(RequestTypeErrors(info.contract),
                          RequestTypeWarnings(info.contract, info.sourceFile),
                          RequestTypeDetails(contractPath, info)))

\* whether the response field is an object the response checks accept
HasResponseObject(contract) ==
  Truthy(Get(contract, <<"r", "e", "s", "p", "o", "n", "s", "e">>)) /\ TypeOf(Get(contract, <<"r", "e", "s", "p", "o", "n", "s", "e">>)) = "object"

ResponseTypeErrors(contract) ==
  IF ~HasResponseObject(contract)
  THEN <<Msg("Response schema is required and must be an object", <<>>)>>
  ELSE IF Len(ObjectKeys(Get(contract, <<"r", "e", "s", "p", "o", "n", "s", "e">>))) = 0
  THEN <<Msg("Response object must define at least one status code", <<>>)>>
  ELSE <<>>

Includes(seq, x) == \E i \in 1..Len(seq) : seq[i] = x

\* the warning of `switch (contract.method)` for the declared status codes
MethodStatusWarnings(method, codes) ==
  IF method = JStr(<<"g", "e", "t">>) /\ ~Includes(codes, <<"2", "0", "0">>)
  THEN <<Msg("GET requests typically include a 200 response status", <<>>)>>
  ELSE IF method = JStr(<<"p", "o", "s", "t">>) /\ ~Includes(codes, <<"2", "0", "1">>) /\ ~Includes(codes, <<"2", "0", "0">>)
  THEN <<Msg("POST requests typically include a 201 or 200 response status", <<>>)>>
  ELSE IF method \in {JStr(<<"p", "u", "t">>), JStr(<<"p", "a", "t", "c", "h">>)} /\ ~Includes(codes, <<"2", "0", "0">>)
  THEN <<Msg("${contract.method.toUpperCase()} requests typically include a 200 response status",
             <<JStr(ToUpperCase(method.s))>>)>>
  ELSE IF method = JStr(<<"d", "e", "l", "e", "t", "e">>) /\ ~Includes(codes, <<"2", "0", "4">>) /\ ~Includes(codes, <<"2", "0", "0">>)
  THEN <<Msg("DELETE requests typically include a 204 or 200 response status", <<>>)>>
  ELSE <<>>

ResponseTypeWarnings(contract, sourceFile) ==
  LET codes == ObjectKeys(Get(contract, <<"r", "e", "s", "p", "o", "n", "s", "e">>))
  IN (IF HasResponseObject(contract)
      THEN (IF ~DeclaresVariable(sourceFile.statements, <<"R", "e", "s", "p", "o", "n", "s", "e", "S", "c", "h", "e", "m", "a">>)
            THEN <<Msg("ResponseSchema is not exported, which may make it difficult to reuse", <<>>)>>
            ELSE <<>>)
           \o MethodStatusWarnings(Get(contract, <<"m", "e", "t", "h", "o", "d">>), codes)
           \o (IF ~\E i \in 1..Len(codes) :
                     ~ParseInt(codes[i]).nan /\ ParseInt(codes[i]).n >= 400
               THEN <<Msg("No error response status codes defined (4xx, 5xx)", <<>>)>>
               ELSE <<>>)
      ELSE <<>>)
     \o (IF ~DeclaresTypeAlias(sourceFile.statements, <<"R", "e", "s", "p", "o", "n", "s", "e">>)
         THEN <<Msg("Response type is not exported", <<>>)>>
         ELSE <<>>)

ResponseTypeDetails(contractPath, info) ==
  JObj(
    << <<<<"c", "o", "n", "t", "r", "a", "c", "t", "N", "a", "m", "e">>, JStr(ContractName(contractPath))>>,
       <<<<"p", "a", "t", "h">>, JStr(info.path)>>,
       <<<<"m", "e", "t", "h", "o", "d">>, Get(info.contract, <<"m", "e", "t", "h", "o", "d">>)>> >>
    \o (IF HasResponseObject(info.contract)
        THEN << <<<<"r", "e", "s", "p", "o", "n", "s", "e", "S", "t", "a", "t", "u", "s", "C", "o", "d", "e", "s">>,
                  JStrings(ObjectKeys(Get(info.contract, <<"r", "e", "s", "p", "o", "n", "s", "e">>)))>> >>
        ELSE <<>>))

validateResponseType(contractPath, info) ==
  Returned(
    IF info.threw
    THEN CaughtResult("Failed to validate response type: ${message}", info.error)
    ELSE IF NoContractOrSource(info)
    THEN NotFoundResult(
           "Contract export not found in the file or could not parse source file",
           contractPath, info)
    ELSE ValidationResult(ResponseTypeErrors(info.contract),
                          ResponseTypeWarnings(info.contract, info.sourceFile),
                          ResponseTypeDetails(contractPath, info)))

(***************************************************************************)
(* validateRequestAgainstContract and validateResponseAgainstContract      *)
(***************************************************************************)
\* a component of `const { params, query, body } = request`
RequestPart(request, name) == Get(request, name)

\* `params && typeof params !== 'object'` for a declared schema
ContainerErrors(contract, request) ==
  (IF Truthy(Get(contract, <<"p", "a", "r", "a", "m", "s">>)) /\ Truthy(RequestPart(request, <<"p", "a", "r", "a", "m", "s">>))
      /\ TypeOf(RequestPart(request, <<"p", "a", "r", "a", "m", "s">>)) # "object"
   THEN <<Msg("Path parameters must be an object", <<>>)>>
   ELSE <<>>)
  \o (IF Truthy(Get(contract, <<"q", "u", "e", "r", "y">>)) /\ Truthy(RequestPart(request, <<"q", "u", "e", "r", "y">>))
         /\ TypeOf(RequestPart(request, <<"q", "u", "e", "r", "y">>)) # "object"
      THEN <<Msg("Query parameters must be an object", <<>>)>>
      ELSE <<>>)

\* mutant of MissingParamErrors: the loop stops at the first missing parameter
MissingParamErrorsFirstOnly(pathParams, params) ==
  LET missing == {i \in 1..Len(pathParams) : Get(params, pathParams[i]) = JUndefined}
  IN IF missing = {} THEN <<>>
     ELSE <<Msg("Missing required path parameter: ${param}",
                <<JStr(pathParams[CHOOSE i \in missing : \A j \in missing : i <= j])>>)>>

\* for (const param of pathParams) if (params[param] === undefined) ...
RECURSIVE MissingParamErrors(_, _)
MissingParamErrors(pathParams, params) ==
  IF pathParams = <<>> THEN <<>>
  ELSE (IF Get(params, Head(pathParams)) = JUndefined
        THEN <<Msg("Missing required path parameter: ${param}", <<JStr(Head(pathParams))>>)>>
        ELSE <<>>)
       \o MissingParamErrors(Tail(pathParams), params)

PathParamErrors(contract, request) ==
  LET path == Get(contract, <<"p", "a", "t", "h">>)
      params == RequestPart(request, <<"p", "a", "r", "a", "m", "s">>)
  IN IF Truthy(path) /\ Len(PathParams(path.s)) > 0
     THEN IF ~Truthy(params)
          THEN <<Msg("Path contains parameters (${pathParams.join(', ')}) but no params object was provided",
                     <<JStrings(PathParams(path.s))>>)>>
          ELSE MissingParamErrors(PathParams(path.s), params)
     ELSE <<>>

BodyWarnings(contract, request) ==
  LET body == RequestPart(request, <<"b", "o", "d", "y">>)
      method == Get(contract, <<"m", "e", "t", "h", "o", "d">>)
  IN IF Truthy(Get(contract, <<"b", "o", "d", "y">>)) /\ Truthy(body)
     THEN IF method = JStr(<<"g", "e", "t">>) /\ Truthy(body)
          THEN <<Msg("GET requests should not have a body", <<>>)>>
          ELSE <<>>
     ELSE IF IsBodyMethod(method) /\ ~Truthy(body)
     THEN <<Msg("${contract.method.toUpperCase()} request is missing a body",
                <<JStr(ToUpperCase(method.s))>>)>>
     ELSE <<>>

RequestDetails(contractPath, info, request) ==
  LET contract == info.contract
      params == RequestPart(request, <<"p", "a", "r", "a", "m", "s">>)
      query == RequestPart(request, <<"q", "u", "e", "r", "y">>)
  IN JObj(
       << <<<<"c", "o", "n", "t", "r", "a", "c", "t", "N", "a", "m", "e">>, JStr(ContractName(contractPath))>>,
          <<<<"p", "a", "t", "h">>, JStr(info.path)>>,
          <<<<"m", "e", "t", "h", "o", "d">>, Get(contract, <<"m", "e", "t", "h", "o", "d">>)>>,
          <<<<"a", "p", "i", "P", "a", "t", "h">>, Get(contract, <<"p", "a", "t", "h">>)>> >>
       \o (IF Truthy(Get(contract, <<"p", "a", "r", "a", "m", "s">>)) /\ Truthy(params)
              /\ TypeOf(params) = "object"
           THEN << <<<<"p", "a", "r", "a", "m", "s", "V", "a", "l", "i", "d">>, JBool(TRUE)>>,
                   <<<<"p", "a", "r", "a", "m", "s", "P", "r", "o", "v", "i", "d", "e", "d">>, JStrings(ObjectKeys(params))>> >>
           ELSE <<>>)
       \o (IF Truthy(Get(contract, <<"q", "u", "e", "r", "y">>)) /\ Truthy(query)
              /\ TypeOf(query) = "object"
           THEN << <<<<"q", "u", "e", "r", "y", "V", "a", "l", "i", "d">>, JBool(TRUE)>>,
                   <<<<"q", "u", "e", "r", "y", "P", "r", "o", "v", "i", "d", "e", "d">>, JStrings(ObjectKeys(query))>> >>
           ELSE <<>>)
       \o (IF Truthy(Get(contract, <<"b", "o", "d", "y">>)) /\ Truthy(RequestPart(request, <<"b", "o", "d", "y">>))
           THEN << <<<<"b", "o", "d", "y", "P", "r", "o", "v", "i", "d", "e", "d">>, JBool(TRUE)>> >>
           ELSE <<>>))

\* the TypeError of validateRequestAgainstContract, if any: destructuring a
\* null or undefined request, or contract.path.match on a truthy non-string
RequestThrows(contract, request) == GetThrows(request) \/ PathThrows(contract)

RequestTypeError(contract, request) ==
  IF GetThrows(request)
  THEN Msg("TypeError: Cannot destructure property 'params' of 'request'", <<>>)
  ELSE Msg("TypeError: contract.path.match is not a function", <<>>)

\* mutant of validateRequestAgainstContract: readContract is awaited outside
\* the try block, its error reaches the caller
validateRequestAgainstContractNoCatch(contractPath, request, info) ==
  IF info.threw
  THEN Thrown(info.error)
  ELSE IF ~Truthy(info.contract)
  THEN Returned(NotFoundResult("Contract export not found in the file", contractPath, info))
  ELSE IF RequestThrows(info.contract, request)
  THEN Thrown(RequestTypeError(info.contract, request))
  ELSE Returned(ValidationResult(
         ContainerErrors(info.contract, request) \o PathParamErrors(info.contract, request),
         BodyWarnings(info.contract, request),
         RequestDetails(contractPath, info, request)))

validateRequestAgainstContract(contractPath, request, info) ==
  Returned(
    IF info.threw
    THEN CaughtResult("Failed to validate request: ${message}", info.error)
    ELSE IF ~Truthy(info.contract)
    THEN NotFoundResult("Contract export not found in the file", contractPath, info)
    ELSE IF RequestThrows(info.contract, request)
    THEN CaughtResult("Failed to validate request: ${message}",
                      RequestTypeError(info.contract, request))
    ELSE ValidationResult(
           ContainerErrors(info.contract, request) \o PathParamErrors(info.contract, request),
           BodyWarnings(info.contract, request),
           RequestDetails(contractPath, info, request)))

\* the default value of the statusCode parameter
DefaultStatusCode == 200

\* `statusCode: number = 200`: the default replaces undefined only
StatusCodeParam(statusCode) ==
  IF statusCode.t = "undefined" THEN JNum(DefaultStatusCode) ELSE statusCode

\* !contract.response || !contract.response[statusCode.toString()]
NoResponseFor(contract, statusCode) ==
  LET response == Get(contract, <<"r", "e", "s", "p", "o", "n", "s", "e">>)
  IN ~Truthy(response) \/ ~Truthy(Get(response, NumToString(statusCode.n)))

\* Object.keys(contract.response), [] when response is falsy
DefinedStatusCodes(contract) ==
  IF Truthy(Get(contract, <<"r", "e", "s", "p", "o", "n", "s", "e">>))
  THEN ObjectKeys(Get(contract, <<"r", "e", "s", "p", "o", "n", "s", "e">>))
  ELSE <<>>

\* mutant of ResponseMatchErrors: the payload is examined before the status code
ResponseMatchErrorsPayloadFirst(contract, response, statusCode) ==
  IF ~Truthy(response)
  THEN <<Msg("Response body is required for status code ${statusCode}", <<statusCode>>)>>
  ELSE IF NoResponseFor(contract, statusCode)
  THEN <<Msg("Contract does not define a response for status code ${statusCode}",
             <<statusCode>>)>>
  ELSE IF TypeOf(response) # "object"
  THEN <<Msg("Response must be an object or array", <<>>)>>
  ELSE <<>>

ResponseMatchErrors(contract, response, statusCode) ==
  IF NoResponseFor(contract, statusCode)
  THEN <<Msg("Contract does not define a response for status code ${statusCode}",
             <<statusCode>>)>>
  ELSE IF ~Truthy(response)
  THEN <<Msg("Response body is required for status code ${statusCode}", <<statusCode>>)>>
  ELSE IF TypeOf(response) # "object"
  THEN <<Msg("Response must be an object or array", <<>>)>>
  ELSE <<>>

ResponseWarnings(contract, response, statusCode) ==
  LET method == Get(contract, <<"m", "e", "t", "h", "o", "d">>)
  IN IF NoResponseFor(contract, statusCode) \/ ~Truthy(response)
        \/ TypeOf(response) # "object"
     THEN <<>>
     ELSE (IF statusCode.n = 200 /\ method = JStr(<<"g", "e", "t">>)
              /\ ~IsArray(response)
              /\ ~Truthy(Get(response, <<"d", "a", "t", "a">>))
              /\ ~Truthy(Get(response, <<"i", "t", "e", "m", "s">>))
              /\ ~Truthy(Get(response, <<"r", "e", "s", "u", "l", "t", "s">>))
           THEN <<Msg("GET 200 responses typically include data in a data, items, or results property or as an array", <<>>)>>
           ELSE <<>>)
          \o (IF statusCode.n = 201 /\ method = JStr(<<"p", "o", "s", "t">>)
                 /\ ~Truthy(Get(response, <<"i", "d">>))
                 /\ ~Truthy(Get(response, <<"_", "i", "d">>))
              THEN <<Msg("Created resources typically include an id or _id property", <<>>)>>
              ELSE <<>>)

ResponseDetails(contractPath, info, response, statusCode) ==
  LET contract == info.contract
  IN JObj(
       << <<<<"c", "o", "n", "t", "r", "a", "c", "t", "N", "a", "m", "e">>, JStr(ContractName(contractPath))>>,
          <<<<"p", "a", "t", "h">>, JStr(info.path)>>,
          <<<<"m", "e", "t", "h", "o", "d">>, Get(contract, <<"m", "e", "t", "h", "o", "d">>)>>,
          <<<<"s", "t", "a", "t", "u", "s", "C", "o", "d", "e">>, statusCode>> >>
       \o (IF NoResponseFor(contract, statusCode)
           THEN IF Len(DefinedStatusCodes(contract)) > 0
                THEN << <<<<"d", "e", "f", "i", "n", "e", "d", "S", "t", "a", "t", "u", "s", "C", "o", "d", "e", "s">>, JStrings(DefinedStatusCodes(contract))>>,
                        <<<<"s", "u", "g", "g", "e", "s", "t", "i", "o", "n", "s">>,
                          Msg("Contract defines responses for status codes: ${definedStatusCodes.join(', ')}",
                              <<JStrings(DefinedStatusCodes(contract))>>)>> >>
                ELSE <<>>
           ELSE << <<<<"r", "e", "s", "p", "o", "n", "s", "e", "S", "c", "h", "e", "m", "a", "E", "x", "i", "s", "t", "s">>, JBool(TRUE)>> >>
                \o (IF Truthy(response) /\ TypeOf(response) = "object"
                    THEN << <<<<"r", "e", "s", "p", "o", "n", "s", "e", "P", "r", "o", "v", "i", "d", "e", "d">>, JBool(TRUE)>> >>
                    ELSE <<>>)))

\* statusCode.toString() on null, evaluated when contract.response is
\* truthy: TypeError
StatusCodeThrows(contract, statusCode) ==
  Truthy(Get(contract, <<"r", "e", "s", "p", "o", "n", "s", "e">>)) /\ GetThrows(statusCode)

validateResponseAgainstContract(contractPath, response, statusCodeArg, info) ==
  Returned(
    LET statusCode == StatusCodeParam(statusCodeArg)
    IN IF info.threw
       THEN CaughtResult("Failed to validate response: ${message}", info.error)
       ELSE IF ~Truthy(info.contract)
       THEN NotFoundResult("Contract export not found in the file", contractPath, info)
       ELSE IF StatusCodeThrows(info.contract, statusCode)
       THEN CaughtResult("Failed to validate response: ${message}",
                         Msg("TypeError: Cannot read properties of null (reading 'toString')", <<>>))
       ELSE ValidationResult(
              ResponseMatchErrors(info.contract, response, statusCode),
              ResponseWarnings(info.contract, response, statusCode),
              ResponseDetails(contractPath, info, response, statusCode)))

(***************************************************************************)
(* Stubs and generateMockResponse                                          *)
(***************************************************************************)
\* the rethrow of createMockRequest, generateTypes, checkTypeExistence and
\* checkTypeProperty
Rethrown(message, error) == Msg(message, <<error>>)

createMockRequest(contractPath, info) ==
  IF info.threw
  THEN Thrown(Rethrown("Failed to create mock request: ${message}", info.error))
  ELSE Returned(JObj(<<>>))

generateTypes(contractPath, info) ==
  IF info.threw
  THEN Thrown(Rethrown("Failed to generate types: ${message}", info.error))
  ELSE Returned([code |-> <<"/", "/", " ", "G", "e", "n", "e", "r", "a", "t", "e", "d", " ", "t", "y", "p", "e", "s", " ", "w", "i", "l", "l", " ", "g", "o", " ", "h", "e", "r", "e">>,
                 typeNames |-> <<>>,
                 sourcePath |-> info.path])

\* mutant of checkTypeExistence: the check is carried out
checkTypeExistenceLookedUp(contractPath, typeName, info) ==
  IF info.threw
  THEN Thrown(Rethrown("Failed to check type existence: ${message}", info.error))
  ELSE Returned(JBool(DeclaresTypeAlias(info.sourceFile.statements, typeName)))

checkTypeExistence(contractPath, typeName, info) ==
  IF info.threw
  THEN Thrown(Rethrown("Failed to check type existence: ${message}", info.error))
  ELSE Returned(JBool(TRUE))

checkTypeProperty(contractPath, typeName, propertyName, info) ==
  IF info.threw
  THEN Thrown(Rethrown("Failed to check type property: ${message}", info.error))
  ELSE Returned(JBool(TRUE))

\* String.prototype.includes
StrIncludes(s, sub) ==
  \E i \in 1..(Len(s) - Len(sub) + 1) : SubSeq(s, i, i + Len(sub) - 1) = sub

\* the values Math.random() yields during one call: the stream the call
\* happens to get, and the position of the draw in it
RandomStreams == {1, 2}
\* the clock readings (ms) a call may see
Times == {86400000, 86400001}

\* generateRandomId(): Math.random().toString(36).substring(2, 15)
generateRandomId(stream, draw) ==
  <<"r">> \o NumToString(stream) \o <<"x">> \o NumToString(draw)

\* generateRandomHash(): 40 hexadecimal digits, one draw each
generateRandomHash(stream, draw) ==
  <<"h">> \o NumToString(stream) \o <<"x">> \o NumToString(draw)

\* generateTruncatedKey(): `${prefix}...${suffix}`, two draws
generateTruncatedKey(stream, draw) ==
  generateRandomId(stream, draw) \o <<".", ".", ".">> \o generateRandomId(stream, draw + 1)

\* Math.floor(Math.random() * range)
RandomBelow(stream, draw, range) == (stream * 7 + draw) % range

\* new Date(ms).toISOString()
ToISOString(ms) == Msg("new Date(${ms}).toISOString()", <<JNum(ms)>>)

MockError == [data |-> JNull, type |-> "error", success |-> FALSE]

\* mutant of MockStatusCode: the fallback is the key written first
MockStatusCodeFirstWritten(contract, statusCode) ==
  IF NoResponseFor(contract, statusCode)
  THEN ParseInt(Get(contract, <<"r", "e", "s", "p", "o", "n", "s", "e">>).o[1][1])
  ELSE [nan |-> FALSE, n |-> statusCode.n]

\* the status code generateMockResponse goes on with: the requested one
\* when declared, else parseInt of the first declared key (NaN possible)
MockStatusCode(contract, statusCode) ==
  IF NoResponseFor(contract, statusCode)
  THEN ParseInt(DefinedStatusCodes(contract)[1])
  ELSE [nan |-> FALSE, n |-> statusCode.n]

\* mutant of ApiKeyList: no record is generated
ApiKeyListEmpty(stream, now) == JArr(<<>>)

\* the two records generated for an api-key "get" contract
ApiKeyList(stream, now) ==
  JArr(<<
    JObj(<<
      <<<<"i", "d">>, JStr(<<"a", "p", "i", "k", "e", "y", "_">> \o generateRandomId(stream, 1))>>,
      <<<<"n", "a", "m", "e">>, JStr(<<"T", "e", "s", "t", " ", "A", "P", "I", " ", "K", "e", "y", " ", "1">>)>>,
      <<<<"d", "e", "s", "c", "r", "i", "p", "t", "i", "o", "n">>, JStr(<<"G", "e", "n", "e", "r", "a", "t", "e", "d", " ", "t", "e", "s", "t", " ", "A", "P", "I", " ", "k", "e", "y">>)>>,
      <<<<"u", "n", "i", "q", "u", "e", "I", "d", "e", "n", "t", "i", "f", "i", "e", "r">>, JStr(generateRandomId(stream, 2))>>,
      <<<<"c", "o", "m", "p", "a", "n", "y">>, JStr(<<"c", "o", "m", "p", "a", "n", "y", "_">> \o generateRandomId(stream, 3))>>,
      <<<<"u", "s", "e", "r">>, JStr(<<"u", "s", "e", "r", "_">> \o generateRandomId(stream, 4))>>,
      <<<<"k", "e", "y", "H", "a", "s", "h">>, JStr(generateRandomHash(stream, 5))>>,
      <<<<"t", "r", "u", "n", "c", "a", "t", "e", "d", "K", "e", "y">>, JStr(generateTruncatedKey(stream, 45))>>,
      <<<<"s", "t", "a", "t", "u", "s">>, JStr(<<"a", "c", "t", "i", "v", "e">>)>>,
      <<<<"p", "e", "r", "m", "i", "s", "s", "i", "o", "n", "s">>, JArr(<<JStr(<<"r", "e", "a", "d">>), JStr(<<"w", "r", "i", "t", "e">>)>>)>>,
      <<<<"u", "s", "a", "g", "e", "C", "o", "u", "n", "t">>, JNum(RandomBelow(stream, 47, 1000))>>,
      <<<<"c", "r", "e", "a", "t", "e", "d", "A", "t">>, ToISOString(now)>> >>),
    JObj(<<
      <<<<"i", "d">>, JStr(<<"a", "p", "i", "k", "e", "y", "_">> \o generateRandomId(stream, 48))>>,
      <<<<"n", "a", "m", "e">>, JStr(<<"T", "e", "s", "t", " ", "A", "P", "I", " ", "K", "e", "y", " ", "2">>)>>,
      <<<<"u", "n", "i", "q", "u", "e", "I", "d", "e", "n", "t", "i", "f", "i", "e", "r">>, JStr(generateRandomId(stream, 49))>>,
      <<<<"c", "o", "m", "p", "a", "n", "y">>, JStr(<<"c", "o", "m", "p", "a", "n", "y", "_">> \o generateRandomId(stream, 50))>>,
      <<<<"u", "s", "e", "r">>, JStr(<<"u", "s", "e", "r", "_">> \o generateRandomId(stream, 51))>>,
      <<<<"k", "e", "y", "H", "a", "s", "h">>, JStr(generateRandomHash(stream, 52))>>,
      <<<<"t", "r", "u", "n", "c", "a", "t", "e", "d", "K", "e", "y">>, JStr(generateTruncatedKey(stream, 92))>>,
      <<<<"s", "t", "a", "t", "u", "s">>, JStr(<<"a", "c", "t", "i", "v", "e">>)>>,
      <<<<"p", "e", "r", "m", "i", "s", "s", "i", "o", "n", "s">>, JArr(<<JStr(<<"r", "e", "a", "d">>)>>)>>,
      <<<<"u", "s", "a", "g", "e", "C", "o", "u", "n", "t">>, JNum(RandomBelow(stream, 94, 100))>>,
      <<<<"c", "r", "e", "a", "t", "e", "d", "A", "t">>, ToISOString(now - 86400000)>> >>) >>)

\* the record generated for an api-key "post" contract
ApiKeyCreated(stream, now) ==
  JObj(<<
    <<<<"i", "d">>, JStr(<<"a", "p", "i", "k", "e", "y", "_">> \o generateRandomId(stream, 1))>>,
    <<<<"n", "a", "m", "e">>, JStr(<<"N", "e", "w", " ", "A", "P", "I", " ", "K", "e", "y">>)>>,
    <<<<"u", "n", "i", "q", "u", "e", "I", "d", "e", "n", "t", "i", "f", "i", "e", "r">>, JStr(generateRandomId(stream, 2))>>,
    <<<<"c", "o", "m", "p", "a", "n", "y">>, JStr(<<"c", "o", "m", "p", "a", "n", "y", "_">> \o generateRandomId(stream, 3))>>,
    <<<<"u", "s", "e", "r">>, JStr(<<"u", "s", "e", "r", "_">> \o generateRandomId(stream, 4))>>,
    <<<<"k", "e", "y", "H", "a", "s", "h">>, JStr(generateRandomHash(stream, 5))>>,
    <<<<"t", "r", "u", "n", "c", "a", "t", "e", "d", "K", "e", "y">>, JStr(generateTruncatedKey(stream, 45))>>,
    <<<<"s", "t", "a", "t", "u", "s">>, JStr(<<"a", "c", "t", "i", "v", "e">>)>>,
    <<<<"p", "e", "r", "m", "i", "s", "s", "i", "o", "n", "s">>, JArr(<<JStr(<<"r", "e", "a", "d">>), JStr(<<"w", "r", "i", "t", "e">>)>>)>>,
    <<<<"u", "s", "a", "g", "e", "C", "o", "u", "n", "t">>, JNum(0)>>,
    <<<<"c", "r", "e", "a", "t", "e", "d", "A", "t">>, ToISOString(now)>> >>)

\* mutant of GenericMock: the message is left out
GenericMockNoMessage(contractName, code, stream, now) ==
  JObj(<<
    <<<<"i", "d">>, JStr(generateRandomId(stream, 1))>>,
    <<<<"t", "i", "m", "e", "s", "t", "a", "m", "p">>, ToISOString(now)>>,
    <<<<"s", "u", "c", "c", "e", "s", "s">>, JBool(TRUE)>> >>)

\* the generic fallback response
GenericMock(contractName, code, stream, now) ==
  JObj(<<
    <<<<"i", "d">>, JStr(generateRandomId(stream, 1))>>,
    <<<<"t", "i", "m", "e", "s", "t", "a", "m", "p">>, ToISOString(now)>>,
    <<<<"s", "u", "c", "c", "e", "s", "s">>, JBool(TRUE)>>,
    <<<<"m", "e", "s", "s", "a", "g", "e">>,
      Msg("Mock response for ${contractName} with status ${statusCode}",
          <<JStr(contractName), code>>)>> >>)

generateMockResponse(contractPath, statusCodeArg, info, stream, now) ==
  Returned(
    LET statusCode == StatusCodeParam(statusCodeArg)
        contract == info.contract
        contractName == ContractName(contractPath)
    IN IF info.threw \/ NoContractOrSource(info) \/ StatusCodeThrows(contract, statusCode)
       THEN MockError
       ELSE IF NoResponseFor(contract, statusCode) /\ Len(DefinedStatusCodes(contract)) = 0
       THEN MockError
       ELSE LET code == MockStatusCode(contract, statusCode)
            IN IF StrIncludes(contractName, <<"a", "p", "i", "-", "k", "e", "y">>)
                  /\ StrIncludes(contractName, <<"g", "e", "t">>)
                  /\ ~code.nan /\ code.n = 200
               THEN [data |-> ApiKeyList(stream, now),
                     type |-> "Array<APIAuthKey>", success |-> TRUE]
               ELSE IF StrIncludes(contractName, <<"a", "p", "i", "-", "k", "e", "y">>)
                       /\ ~StrIncludes(contractName, <<"g", "e", "t">>)
                       /\ StrIncludes(contractName, <<"p", "o", "s", "t">>)
                       /\ ~code.nan /\ code.n \in {201, 200}
               THEN [data |-> ApiKeyCreated(stream, now),
                     type |-> "APIAuthKey", success |-> TRUE]
               ELSE [data |-> GenericMock(contractName, code, stream, now),
                     type |-> "generic", success |-> TRUE])

(***************************************************************************)
(* The adapter as a state machine                                          *)
(***************************************************************************)
NoReturn == [kind |-> "none"]

\* a call suspended on its await
Call(op, contractPath, args) == [op |-> op, contractPath |-> contractPath, args |-> args]

RemoveAt(seq, i) == SubSeq(seq, 1, i - 1) \o SubSeq(seq, i + 1, Len(seq))

NoResult == ValidationResult(<<>>, <<>>, JUndefined)

\* no validateContract call to compare with
NoHistory ==
  [calls |-> 0, contractPath |-> <<>>, lazy |-> FALSE, prev |-> NoResult,
   last |-> NoResult]

\* constructor: program and typeChecker are null, nothing is in flight
Constructed ==
  /\ program = NullProgram
  /\ typeChecker = "null"
  /\ pending = <<>>
  /\ ret = NoReturn
  /\ lastVC = NoHistory
  /\ initialized = FALSE
  /\ released = FALSE

\* a caller starts an operation: it runs up to its first await
Invoke(op, contractPath, args) ==
  /\ pending' = Append(pending, Call(op, contractPath, args))
  /\ ret' = NoReturn
  /\ released' = (released /\ op # "initialize")
  /\ UNCHANGED <<files, dirReadable, program, typeChecker, lastVC, initialized>>

\* the history after validateContract(contractPath) has returned `result`:
\* consecutive calls on one reference are counted (up to two), the result of
\* the call before is kept, and `lazy` tells whether the first of them built
\* the program
Recorded(h, contractPath, result, lazy) ==
  IF h.calls > 0 /\ h.contractPath = contractPath
  THEN [calls |-> 2, contractPath |-> contractPath, lazy |-> h.lazy,
        prev |-> h.last, last |-> result]
  ELSE [calls |-> 1, contractPath |-> contractPath, lazy |-> lazy,
        prev |-> NoResult, last |-> result]

\* the call pending[i] resumes when its read has completed: readContract
\* runs to its end, the operation delivers `outcome`
Complete(i, outcome) ==
  LET call == pending[i]
      info == readContract(call.contractPath)
  IN /\ pending' = RemoveAt(pending, i)
     /\ program' = info.program
     /\ typeChecker' = info.typeChecker
     /\ ret' = [kind |-> outcome.kind, op |-> call.op,
                contractPath |-> call.contractPath, args |-> call.args,
                value |-> outcome.value]
     /\ lastVC' = IF call.op = "validateContract"
                  THEN Recorded(lastVC, call.contractPath, outcome.value,
                                ~program.created /\ info.program.created)
                  ELSE lastVC
     /\ UNCHANGED <<files, dirReadable, initialized, released>>

\* initialize(): suspended on fs.access
InvokeInitialize == Invoke("initialize", <<>>, <<>>)

\* initialize() after fs.access (whose failure is only logged)
Initialize ==
  \E i \in 1..Len(pending) :
    /\ pending[i].op = "initialize"
    /\ pending' = RemoveAt(pending, i)
    /\ program' = initTypeScriptCompiler(program, typeChecker).program
    /\ typeChecker' = initTypeScriptCompiler(program, typeChecker).typeChecker
    /\ ret' = [kind |-> "return", op |-> "initialize", contractPath |-> <<>>,
               args |-> <<>>, value |-> JUndefined]
    /\ lastVC' = NoHistory
    /\ initialized' = TRUE
    /\ UNCHANGED <<files, dirReadable, released>>

\* mutant of cleanup(): only the program is released
CleanupProgramOnly ==
  /\ program' = NullProgram
  /\ typeChecker' = typeChecker
  /\ ret' = [kind |-> "return", op |-> "cleanup", contractPath |-> <<>>,
             args |-> <<>>, value |-> JUndefined]
  /\ lastVC' = NoHistory
  /\ released' = TRUE
  /\ UNCHANGED <<files, dirReadable, pending, initialized>>

\* cleanup(): no await, it runs to its end when called
Cleanup ==
  /\ program' = NullProgram
  /\ typeChecker' = "null"
  /\ ret' = [kind |-> "return", op |-> "cleanup", contractPath |-> <<>>,
             args |-> <<>>, value |-> JUndefined]
  /\ lastVC' = NoHistory
  /\ released' = TRUE
  /\ UNCHANGED <<files, dirReadable, pending, initialized>>

InvokeValidateContract(refs) ==
  \E contractPath \in refs : Invoke("validateContract", contractPath, <<>>)

ValidateContract ==
  \E i \in 1..Len(pending) :
    /\ pending[i].op = "validateContract"
    /\ Complete(i, validateContract(pending[i].contractPath,
                                             readContract(pending[i].contractPath)))

InvokeValidateRequestType(refs) ==
  \E contractPath \in refs : Invoke("validateRequestType", contractPath, <<>>)

ValidateRequestType ==
  \E i \in 1..Len(pending) :
    /\ pending[i].op = "validateRequestType"
    /\ Complete(i, validateRequestType(pending[i].contractPath,
                                                readContract(pending[i].contractPath)))

InvokeValidateResponseType(refs) ==
  \E contractPath \in refs : Invoke("validateResponseType", contractPath, <<>>)

ValidateResponseType ==
  \E i \in 1..Len(pending) :
    /\ pending[i].op = "validateResponseType"
    /\ Complete(i, validateResponseType(pending[i].contractPath,
                                                 readContract(pending[i].contractPath)))

InvokeValidateRequestAgainstContract(refs, requests) ==
  \E contractPath \in refs, request \in requests :
    Invoke("validateRequestAgainstContract", contractPath, <<request>>)

ValidateRequestAgainstContract ==
  \E i \in 1..Len(pending) :
    /\ pending[i].op = "validateRequestAgainstContract"
    /\ Complete(i, validateRequestAgainstContract(
                              pending[i].contractPath, pending[i].args[1],
                              readContract(pending[i].contractPath)))

InvokeValidateResponseAgainstContract(refs, responses, statusCodes) ==
  \E contractPath \in refs, response \in responses, statusCode \in statusCodes :
    Invoke("validateResponseAgainstContract", contractPath, <<response, statusCode>>)

ValidateResponseAgainstContract ==
  \E i \in 1..Len(pending) :
    /\ pending[i].op = "validateResponseAgainstContract"
    /\ Complete(i, validateResponseAgainstContract(
                              pending[i].contractPath, pending[i].args[1],
                              pending[i].args[2],
                              readContract(pending[i].contractPath)))

InvokeCreateMockRequest(refs) ==
  \E contractPath \in refs : Invoke("createMockRequest", contractPath, <<>>)

CreateMockRequest ==
  \E i \in 1..Len(pending) :
    /\ pending[i].op = "createMockRequest"
    /\ Complete(i, createMockRequest(pending[i].contractPath,
                                     readContract(pending[i].contractPath)))

InvokeGenerateTypes(refs) ==
  \E contractPath \in refs : Invoke("generateTypes", contractPath, <<>>)

GenerateTypes ==
  \E i \in 1..Len(pending) :
    /\ pending[i].op = "generateTypes"
    /\ Complete(i, generateTypes(pending[i].contractPath,
                                 readContract(pending[i].contractPath)))

InvokeCheckTypeExistence(refs, typeNames) ==
  \E contractPath \in refs, typeName \in typeNames :
    Invoke("checkTypeExistence", contractPath, <<typeName>>)

CheckTypeExistence ==
  \E i \in 1..Len(pending) :
    /\ pending[i].op = "checkTypeExistence"
    /\ Complete(i, checkTypeExistence(pending[i].contractPath, pending[i].args[1],
                                      readContract(pending[i].contractPath)))

InvokeCheckTypeProperty(refs, typeNames, propertyNames) ==
  \E contractPath \in refs, typeName \in typeNames, propertyName \in propertyNames :
    Invoke("checkTypeProperty", contractPath, <<typeName, propertyName>>)

CheckTypeProperty ==
  \E i \in 1..Len(pending) :
    /\ pending[i].op = "checkTypeProperty"
    /\ Complete(i, checkTypeProperty(pending[i].contractPath, pending[i].args[1],
                                     pending[i].args[2],
                                     readContract(pending[i].contractPath)))

InvokeGenerateMockResponse(refs, statusCodes) ==
  \E contractPath \in refs, statusCode \in statusCodes :
    Invoke("generateMockResponse", contractPath, <<statusCode>>)

GenerateMockResponse ==
  \E i \in 1..Len(pending), stream \in RandomStreams, now \in Times :
    /\ pending[i].op = "generateMockResponse"
    /\ Complete(i, generateMockResponse(
                              pending[i].contractPath, pending[i].args[1],
                              readContract(pending[i].contractPath), stream, now))

\* the environment writes, replaces or removes a contract file
WriteFile(sources) ==
  \E l \in ChangingLocations, f \in sources \cup {NoFile} :
    /\ files[l] # f
    /\ files' = [files EXCEPT ![l] = f]
    /\ ret' = NoReturn
    /\ lastVC' = NoHistory
    /\ UNCHANGED <<dirReadable, program, typeChecker, pending, initialized, released>>

\* the contracts directory becomes unreadable or readable again
ChangeDirectoryAccess ==
  /\ dirReadable' = ~dirReadable
  /\ ret' = NoReturn
  /\ lastVC' = NoHistory
  /\ UNCHANGED <<files, program, typeChecker, pending, initialized, released>>

(***************************************************************************)
(* Contract files used as inputs                                           *)
(***************************************************************************)
\* `name: init` with an identifier as the property name
Prop(name, init) == PropertyAssignment(Identifier(name), init)

\* a file whose only statement is `export const Contract = { props }`
ContractFile(props) ==
  SourceFile(<<VariableStatement(<<"C", "o", "n", "t", "r", "a", "c", "t">>, ObjectLiteralExpression(props))>>)

\* a response descriptor `{ description: '...', schema: ResponseSchema }`
Descriptor ==
  ObjectLiteralExpression(<<
    Prop(<<"d", "e", "s", "c", "r", "i", "p", "t", "i", "o", "n">>, StringLiteral(<<"o", "k">>)),
    Prop(<<"s", "c", "h", "e", "m", "a">>, Expression(<<"R", "e", "s", "p", "o", "n", "s", "e", "S", "c", "h", "e", "m", "a">>)) >>)

\* the contract of the test scenarios: GET /admin/api-keys, authenticated,
\* status 200 declared; with its schema and type exports
ApiKeyGetFile ==
  SourceFile(<<
    VariableStatement(<<"R", "e", "s", "p", "o", "n", "s", "e", "S", "c", "h", "e", "m", "a">>, Expression(<<"z", ".", "a", "r", "r", "a", "y", "(", "K", "e", "y", "S", "c", "h", "e", "m", "a", ")">>)),
    VariableStatement(<<"C", "o", "n", "t", "r", "a", "c", "t">>, ObjectLiteralExpression(<<
      Prop(<<"p", "a", "t", "h">>, StringLiteral(<<"/", "a", "d", "m", "i", "n", "/", "a", "p", "i", "-", "k", "e", "y", "s">>)),
      Prop(<<"m", "e", "t", "h", "o", "d">>, StringLiteral(<<"g", "e", "t">>)),
      Prop(<<"a", "u", "t", "h">>, ObjectLiteralExpression(<<
        Prop(<<"r", "e", "q", "u", "i", "r", "e", "s", "A", "u", "t", "h", "e", "n", "t", "i", "c", "a", "t", "i", "o", "n">>, TrueKeyword) >>)),
      Prop(<<"r", "e", "s", "p", "o", "n", "s", "e">>, ObjectLiteralExpression(<<
        PropertyAssignment(NumericLiteral(<<"2", "0", "0">>), Descriptor),
        PropertyAssignment(NumericLiteral(<<"4", "0", "1">>), Descriptor) >>)) >>)),
    TypeAliasDeclaration(<<"R", "e", "s", "p", "o", "n", "s", "e">>) >>)

\* a contract with a placeholder and no params schema, no method
UserPostFile ==
  ContractFile(<<
    Prop(<<"p", "a", "t", "h">>, StringLiteral(<<"/", "u", "s", "e", "r", "s", "/", ":", "u", "s", "e", "r", "I", "d">>)),
    Prop(<<"r", "e", "s", "p", "o", "n", "s", "e">>, ObjectLiteralExpression(<<
      PropertyAssignment(NumericLiteral(<<"2", "0", "1">>), Descriptor) >>)) >>)

LifecycleFiles == {ApiKeyGetFile, UserPostFile}

(***************************************************************************)
(* Spec: the life cycle of one adapter over a changing contracts directory *)
(***************************************************************************)
\* the caller awaits each call before it starts the next one
CanInvoke == pending = <<>>

Init ==
  /\ Constructed
  /\ \E written \in [ChangingLocations -> LifecycleFiles \cup {NoFile}] :
       files = [l \in Locations |-> IF l \in ChangingLocations THEN written[l] ELSE NoFile]
  /\ dirReadable \in BOOLEAN

SomeRequests == {JObj(<<>>)}
SomeResponses == {JArr(<<>>)}
SomeStatusCodes == {JUndefined, JNum(401)}
SomeTypeNames == {<<"R", "e", "s", "p", "o", "n", "s", "e">>, <<"U", "s", "e", "r">>}
SomePropertyNames == {<<"i", "d">>}

Next ==
  \/ CanInvoke /\ InvokeInitialize
  \/ Initialize
  \/ Cleanup
  \/ CanInvoke /\ InvokeValidateContract(ContractRefs)
  \/ ValidateContract
  \/ CanInvoke /\ InvokeValidateRequestType(ContractRefs)
  \/ ValidateRequestType
  \/ CanInvoke /\ InvokeValidateResponseType(ContractRefs)
  \/ ValidateResponseType
  \/ CanInvoke /\ InvokeValidateRequestAgainstContract(ContractRefs, SomeRequests)
  \/ ValidateRequestAgainstContract
  \/ CanInvoke /\ InvokeValidateResponseAgainstContract(ContractRefs, SomeResponses,
                                                        SomeStatusCodes)
  \/ ValidateResponseAgainstContract
  \/ CanInvoke /\ InvokeCreateMockRequest(ContractRefs)
  \/ CreateMockRequest
  \/ CanInvoke /\ InvokeGenerateTypes(ContractRefs)
  \/ GenerateTypes
  \/ CanInvoke /\ InvokeCheckTypeExistence(ContractRefs, SomeTypeNames)
  \/ CheckTypeExistence
  \/ CanInvoke /\ InvokeCheckTypeProperty(ContractRefs, SomeTypeNames, SomePropertyNames)
  \/ CheckTypeProperty
  \/ CanInvoke /\ InvokeGenerateMockResponse(ContractRefs, SomeStatusCodes)
  \/ GenerateMockResponse
  \/ WriteFile(LifecycleFiles)
  \/ ChangeDirectoryAccess

Spec == Init /\ [][Next]_vars

(***************************************************************************)
(* Specifications of single calls: the directory holds one contract file,  *)
(* drawn from a family, and every call names it                            *)
(***************************************************************************)
\* the reference these calls use; it resolves to LocInDir
TheRef == <<"a", "p", "i", "-", "k", "e", "y", ".", "g", "e", "t", ".", "t", "s">>

\* the directory holds `source` at LocInDir and nothing else
OnlyFile(source) == [l \in Locations |-> IF l = LocInDir THEN source ELSE NoFile]

\* an adapter just constructed over a readable directory holding one of `sources`
InitWith(sources) ==
  /\ Constructed
  /\ dirReadable = TRUE
  /\ \E source \in sources : files = OnlyFile(source)

\* the sequences over `items` of length lo..hi
SeqsUpTo(items, lo, hi) == UNION {[1..n -> items] : n \in lo..hi}

\* --- contracts whose required fields are absent, falsy or filled -----------
PathProps ==
  {<<>>,
   <<Prop(<<"p", "a", "t", "h">>, StringLiteral(<<>>))>>,
   <<Prop(<<"p", "a", "t", "h">>, StringLiteral(<<"/", "u", "s", "e", "r", "s">>))>>,
   <<Prop(<<"p", "a", "t", "h">>, StringLiteral(<<"u", "s", "e", "r", "s">>))>>}

MethodProps ==
  {<<>>,
   <<Prop(<<"m", "e", "t", "h", "o", "d">>, StringLiteral(<<"g", "e", "t">>))>>,
   <<Prop(<<"m", "e", "t", "h", "o", "d">>, StringLiteral(<<"f", "e", "t", "c", "h">>))>>,
   <<Prop(<<"m", "e", "t", "h", "o", "d">>, NullKeyword)>>,
   <<Prop(<<"m", "e", "t", "h", "o", "d">>, NumericLiteral(<<"0">>))>>}

ResponseProps ==
  {<<>>,
   <<Prop(<<"r", "e", "s", "p", "o", "n", "s", "e">>, NullKeyword)>>,
   <<Prop(<<"r", "e", "s", "p", "o", "n", "s", "e">>, FalseKeyword)>>,
   <<Prop(<<"r", "e", "s", "p", "o", "n", "s", "e">>, ObjectLiteralExpression(<<>>))>>,
   <<Prop(<<"r", "e", "s", "p", "o", "n", "s", "e">>, ObjectLiteralExpression(<<
       PropertyAssignment(NumericLiteral(<<"2", "0", "0">>), Descriptor)>>))>>}

FieldContracts ==
  {ContractFile(p \o m \o r) : p \in PathProps, m \in MethodProps, r \in ResponseProps}

\* nothing has been called yet: these specifications make one call on the
\* adapter they construct
Fresh == pending = <<>> /\ ret = NoReturn

NextContract ==
  \/ Fresh /\ InvokeValidateContract({TheRef})
  \/ ValidateContract

SpecFields == InitWith(FieldContracts) /\ [][NextContract]_vars

\* --- contracts whose response mapping has up to MaxResponseKeys keys -------
MaxResponseKeys == 2

\* the property names a response mapping is written with
StatusKeyNames ==
  {NumericLiteral(<<"2", "0", "0">>), NumericLiteral(<<"4", "0", "4">>), NumericLiteral(<<"9", "9">>),
   NumericLiteral(<<"6", "0", "0">>), NumericLiteral(<<"2", "0", "0", ".", "5">>), Identifier(<<"o", "k">>),
   StringLiteral(<<"2", "0", "0">>)}

ResponseMapping(names) ==
  ObjectLiteralExpression([i \in 1..Len(names) |-> PropertyAssignment(names[i], Descriptor)])

StatusContracts ==
  {ContractFile(<<Prop(<<"p", "a", "t", "h">>, StringLiteral(<<"/", "u", "s", "e", "r", "s">>)),
                  Prop(<<"m", "e", "t", "h", "o", "d">>, StringLiteral(<<"g", "e", "t">>)),
                  Prop(<<"r", "e", "s", "p", "o", "n", "s", "e">>, ResponseMapping(names))>>) :
     names \in SeqsUpTo(StatusKeyNames, 1, MaxResponseKeys)}

SpecStatusCodes == InitWith(StatusContracts) /\ [][NextContract]_vars

\* --- contracts that break several rules at once ----------------------------
RulePathProps ==
  {<<Prop(<<"p", "a", "t", "h">>, StringLiteral(<<"/", "u", "s", "e", "r", "s">>))>>,
   <<Prop(<<"p", "a", "t", "h">>, StringLiteral(<<"u", "s", "e", "r", "s">>))>>,
   <<Prop(<<"p", "a", "t", "h">>, NumericLiteral(<<"5">>))>>}

RuleMethodProps ==
  {<<>>,
   <<Prop(<<"m", "e", "t", "h", "o", "d">>, StringLiteral(<<"g", "e", "t">>))>>,
   <<Prop(<<"m", "e", "t", "h", "o", "d">>, StringLiteral(<<"f", "e", "t", "c", "h">>))>>}

RuleResponseProps ==
  {<<>>,
   <<Prop(<<"r", "e", "s", "p", "o", "n", "s", "e">>, ObjectLiteralExpression(<<>>))>>,
   <<Prop(<<"r", "e", "s", "p", "o", "n", "s", "e">>, ResponseMapping(<<NumericLiteral(<<"9", "9">>)>>))>>,
   <<Prop(<<"r", "e", "s", "p", "o", "n", "s", "e">>, ResponseMapping(<<NumericLiteral(<<"2", "0", "0">>)>>))>>}

AuthorizationProp(props) ==
  <<Prop(<<"a", "u", "t", "h">>, ObjectLiteralExpression(<<
      Prop(<<"a", "u", "t", "h", "o", "r", "i", "z", "a", "t", "i", "o", "n">>, ObjectLiteralExpression(props))>>))>>

RuleAuthProps ==
  {<<>>,
   AuthorizationProp(<<Prop(<<"r", "o", "l", "e", "s">>, NumericLiteral(<<"5">>)),
                       Prop(<<"s", "c", "o", "p", "e", "s">>, TrueKeyword)>>),
   AuthorizationProp(<<Prop(<<"r", "o", "l", "e", "s">>, StringLiteral(<<"a", "d", "m", "i", "n">>)),
                       Prop(<<"c", "l", "a", "i", "m", "s">>, StringLiteral(<<"s", "u", "b">>))>>),
   AuthorizationProp(<<Prop(<<"c", "l", "a", "i", "m", "s">>, ArrayLiteralExpression(<<
       ObjectLiteralExpression(<<Prop(<<"u", "s", "e", "r", "C", "l", "a", "i", "m", "P", "a", "t", "h">>, StringLiteral(<<"s", "u", "b">>))>>)>>))>>),
   AuthorizationProp(<<Prop(<<"c", "l", "a", "i", "m", "s">>, ArrayLiteralExpression(<<NullKeyword>>))>>)}

RuleContracts ==
  {ContractFile(p \o m \o r \o a) :
     p \in RulePathProps, m \in RuleMethodProps, r \in RuleResponseProps,
     a \in RuleAuthProps}

SpecRules == InitWith(RuleContracts) /\ [][NextContract]_vars

(***************************************************************************)
(* Claims about validateContract                                           *)
(***************************************************************************)
\* the contract description the call that just returned worked on
Described ==
  IF readContract(ret.contractPath).threw THEN JUndefined
  ELSE readContract(ret.contractPath).contract

\* validateContract has just returned the result of its checks on a description
ContractChecked ==
  ret.kind = "return" /\ ret.op = "validateContract" /\ Truthy(Described)

RequiredFieldNames == {<<"p", "a", "t", "h">>, <<"m", "e", "t", "h", "o", "d">>, <<"r", "e", "s", "p", "o", "n", "s", "e">>}

\* how many 'Missing required field: <field>' errors a result carries
MissingFieldCount(errors, field) ==
  Cardinality({i \in 1..Len(errors) :
                 errors[i] = Msg("Missing required field: ${field}", <<JStr(field)>>)})

\* C1: for every contract description validateContract reports exactly one
\* 'Missing required field: <name>' error for each of path, method and
\* response that is absent from the description, no such error for a field
\* that is present whatever its value, and success=false when one is absent.
C1_MissingRequiredFields ==
  ContractChecked =>
    /\ \A field \in RequiredFieldNames :
         MissingFieldCount(ret.value.errors, field)
           = IF HasKey(Described.o, field) THEN 0 ELSE 1
    /\ (\E field \in RequiredFieldNames : ~HasKey(Described.o, field))
         => ~ret.value.success

\* a string of decimal digits without sign, space or fraction whose value
\* lies in 100..599
IsStatusCodeString(key) ==
  /\ key # <<>>
  /\ \A i \in 1..Len(key) : key[i] \in Digits
  /\ DigitsValue(key) >= 100
  /\ DigitsValue(key) <= 599

\* how many 'Invalid status code in response: <key>' errors a result carries
InvalidStatusCount(errors, key) ==
  Cardinality({i \in 1..Len(errors) :
    errors[i] = Msg("Invalid status code in response: ${key}. Must be a valid HTTP status code (100-599)",
                    <<JStr(key)>>)})

\* the errors of a result that concern the response mapping
ResponseRelated(errors) ==
  {i \in 1..Len(errors) :
     errors[i].id \in
       {"Invalid status code in response: ${key}. Must be a valid HTTP status code (100-599)",
        "Response object must have at least one status code",
        "Missing required field: ${field}"}
     /\ (errors[i].id = "Missing required field: ${field}"
           => errors[i].args = <<JStr(<<"r", "e", "s", "p", "o", "n", "s", "e">>)>>)}

\* the keys of the response mapping of the description
ResponseKeys == RawKeys(Get(Described, <<"r", "e", "s", "p", "o", "n", "s", "e">>).o)

\* C2: for every response mapping validateContract reports exactly one
\* 'Invalid status code' error for each key that is not an integer string
\* within [100, 599]; a mapping with at least one entry whose keys are all
\* such strings yields no response-related error.
C2_InvalidStatusCodes ==
  (ContractChecked /\ Get(Described, <<"r", "e", "s", "p", "o", "n", "s", "e">>).t = "object") =>
    /\ \A i \in 1..Len(ResponseKeys) :
         InvalidStatusCount(ret.value.errors, ResponseKeys[i])
           = IF IsStatusCodeString(ResponseKeys[i]) THEN 0 ELSE 1
    /\ (Len(ResponseKeys) > 0
        /\ \A i \in 1..Len(ResponseKeys) : IsStatusCodeString(ResponseKeys[i]))
         => ResponseRelated(ret.value.errors) = {}

\* the rule an error of validateContract reports
RuleOf(error) ==
  CASE error.id = "Missing required field: ${field}" -> "required-fields"
    [] error.id = "Invalid method: ${contract.method}. Must be one of: get, post, put, delete, patch"
         -> "method"
    [] error.id = "Invalid path: ${contract.path}. Must start with /" -> "path"
    [] error.id = "Invalid status code in response: ${key}. Must be a valid HTTP status code (100-599)"
         -> "response keys"
    [] error.id = "Response object must have at least one status code" -> "response keys"
    [] error.id = "Authorization roles must be a string or array of strings" -> "roles"
    [] error.id = "Authorization scopes must be a string or array of strings" -> "scopes"
    [] error.id = "Authorization claims must be an array" -> "claims"
    [] error.id = "Claim at index ${index} is missing required field userClaimPath" -> "claims"
    [] error.id = "Claim at index ${index} is missing required field routeParamName" -> "claims"
    [] OTHER -> "no rule"

ReportedRules(errors) == [i \in 1..Len(errors) |-> RuleOf(errors[i])]

Repeat(rule, n) == [i \in 1..n |-> rule]

\* a string, or a sequence
StringOrSequence(v) == v.t \in {"string", "array"}

\* how many of the two claim fields an element of claims lacks
MissingClaimFields(claim) ==
  Cardinality({field \in {<<"u", "s", "e", "r", "C", "l", "a", "i", "m", "P", "a", "t", "h">>, <<"r", "o", "u", "t", "e", "P", "a", "r", "a", "m", "N", "a", "m", "e">>} :
                 ~Truthy(Get(claim, field))})

RECURSIVE SumMissingClaimFields(_)
SumMissingClaimFields(claims) ==
  IF claims = <<>> THEN 0
  ELSE MissingClaimFields(Head(claims)) + SumMissingClaimFields(Tail(claims))

\* the rules a description violates, one entry for each violation, in the
\* order required-fields, method, path, response keys, roles, scopes, claims
ViolatedRules(desc) ==
  LET method == Get(desc, <<"m", "e", "t", "h", "o", "d">>)
      path == Get(desc, <<"p", "a", "t", "h">>)
      response == Get(desc, <<"r", "e", "s", "p", "o", "n", "s", "e">>)
      authorization == Get(Get(desc, <<"a", "u", "t", "h">>), <<"a", "u", "t", "h", "o", "r", "i", "z", "a", "t", "i", "o", "n">>)
      roles == Get(authorization, <<"r", "o", "l", "e", "s">>)
      scopes == Get(authorization, <<"s", "c", "o", "p", "e", "s">>)
      claims == Get(authorization, <<"c", "l", "a", "i", "m", "s">>)
  IN Repeat("required-fields",
            Cardinality({field \in RequiredFieldNames : ~HasKey(desc.o, field)}))
     \o Repeat("method",
               IF method.t # "undefined" /\ ~(method.t = "string" /\ method.s \in Methods)
               THEN 1 ELSE 0)
     \o Repeat("path",
               IF path.t # "undefined" /\ ~(path.t = "string" /\ StartsWith(path.s, <<"/">>))
               THEN 1 ELSE 0)
     \o Repeat("response keys",
               IF response.t # "object" THEN 0
               ELSE IF response.o = <<>> THEN 1
               ELSE Cardinality({i \in 1..Len(response.o) :
                                   ~IsStatusCodeString(response.o[i][1])}))
     \o Repeat("roles", IF roles.t # "undefined" /\ ~StringOrSequence(roles) THEN 1 ELSE 0)
     \o Repeat("scopes", IF scopes.t # "undefined" /\ ~StringOrSequence(scopes) THEN 1 ELSE 0)
     \o Repeat("claims",
               IF claims.t = "undefined" THEN 0
               ELSE IF claims.t # "array" THEN 1
               ELSE SumMissingClaimFields(claims.a))

\* C7: validateContract does not short-circuit: for every description the
\* extractor can produce, values of an unexpected type included (a numeric
\* path, a null claims element), one call returns one error for every
\* violated rule, the errors in the order required-fields, method, path,
\* response keys, roles, scopes, claims.
C7_EveryViolatedRuleReported ==
  ContractChecked => ReportedRules(ret.value.errors) = ViolatedRules(Described)

(***************************************************************************)
(* SpecValidation: the five validation operations on one contract file,    *)
(* with requests, payloads and status codes drawn from small sets          *)
(***************************************************************************)
MaxPlaceholders == 2

PlaceholderNames == {<<"u", "s", "e", "r", "I", "d">>, <<"o", "r", "g">>}

RECURSIVE PlaceholderSegments(_)
PlaceholderSegments(names) ==
  IF names = <<>> THEN <<>>
  ELSE <<"/", ":">> \o Head(names) \o PlaceholderSegments(Tail(names))

\* the path /r/:name1/:name2...
PlaceholderPath(names) == <<"/", "r">> \o PlaceholderSegments(names)

SchemaProps ==
  {p \o q \o b :
     p \in {<<>>, <<Prop(<<"p", "a", "r", "a", "m", "s">>, Expression(<<"P", "a", "r", "a", "m", "s", "S", "c", "h", "e", "m", "a">>))>>},
     q \in {<<>>, <<Prop(<<"q", "u", "e", "r", "y">>, Expression(<<"Q", "u", "e", "r", "y", "S", "c", "h", "e", "m", "a">>))>>},
     b \in {<<>>, <<Prop(<<"b", "o", "d", "y">>, Expression(<<"B", "o", "d", "y", "S", "c", "h", "e", "m", "a">>))>>}}

DeclaredResponseProps ==
  {<<>>,
   <<Prop(<<"r", "e", "s", "p", "o", "n", "s", "e">>, ResponseMapping(<<NumericLiteral(<<"2", "0", "0">>)>>))>>,
   <<Prop(<<"r", "e", "s", "p", "o", "n", "s", "e">>, ResponseMapping(<<NumericLiteral(<<"2", "0", "1">>), NumericLiteral(<<"4", "0", "4">>)>>))>>}

ValidationContracts ==
  {ContractFile(<<Prop(<<"p", "a", "t", "h">>, StringLiteral(PlaceholderPath(names)))>> \o m \o s \o r) :
     names \in SeqsUpTo(PlaceholderNames, 0, MaxPlaceholders),
     m \in {<<Prop(<<"m", "e", "t", "h", "o", "d">>, StringLiteral(<<"g", "e", "t">>))>>,
            <<Prop(<<"m", "e", "t", "h", "o", "d">>, StringLiteral(<<"p", "o", "s", "t">>))>>},
     s \in SchemaProps,
     r \in DeclaredResponseProps}

\* no file, a file whose Contract is no object literal, a contract with a
\* numeric path
OtherSources ==
  {NoFile,
   SourceFile(<<VariableStatement(<<"C", "o", "n", "t", "r", "a", "c", "t">>, Expression(<<"d", "e", "f", "i", "n", "e", "C", "o", "n", "t", "r", "a", "c", "t", "(", ")">>))>>),
   ContractFile(<<Prop(<<"p", "a", "t", "h">>, NumericLiteral(<<"5">>)),
                  Prop(<<"r", "e", "s", "p", "o", "n", "s", "e">>, ResponseMapping(<<NumericLiteral(<<"2", "0", "0">>)>>))>>)}

\* { params, query, body } with the undefined components left out
RequestOf(params, query, body) ==
  JObj((IF params = JUndefined THEN <<>> ELSE << <<<<"p", "a", "r", "a", "m", "s">>, params>> >>)
       \o (IF query = JUndefined THEN <<>> ELSE << <<<<"q", "u", "e", "r", "y">>, query>> >>)
       \o (IF body = JUndefined THEN <<>> ELSE << <<<<"b", "o", "d", "y">>, body>> >>))

ParamsValues ==
  {JUndefined, JStr(<<"a", "b", "c">>), JObj(<<>>),
   JObj(<< <<<<"u", "s", "e", "r", "I", "d">>, JStr(<<"a", "b", "c">>)>> >>),
   JObj(<< <<<<"o", "r", "g">>, JStr(<<"a", "c", "m", "e">>)>> >>),
   JObj(<< <<<<"u", "s", "e", "r", "I", "d">>, JStr(<<"a", "b", "c">>)>>, <<<<"o", "r", "g">>, JStr(<<"a", "c", "m", "e">>)>> >>)}

Requests ==
  {RequestOf(params, query, body) :
     params \in ParamsValues,
     query \in {JUndefined, JObj(<<>>), JStr(<<"q">>)},
     body \in {JUndefined, JObj(<<>>)}}
  \cup {JNull}

Payloads == {JNull, JStr(<<"x">>), JObj(<<>>), JArr(<<>>)}

StatusCodes == {JUndefined, JNum(201), JNum(404), JNull}

NextValidation ==
  \/ Fresh /\ InvokeValidateContract({TheRef})
  \/ ValidateContract
  \/ Fresh /\ InvokeValidateRequestType({TheRef})
  \/ ValidateRequestType
  \/ Fresh /\ InvokeValidateResponseType({TheRef})
  \/ ValidateResponseType
  \/ Fresh /\ InvokeValidateRequestAgainstContract({TheRef}, Requests)
  \/ ValidateRequestAgainstContract
  \/ Fresh /\ InvokeValidateResponseAgainstContract({TheRef}, Payloads, StatusCodes)
  \/ ValidateResponseAgainstContract

SpecValidation ==
  InitWith(ValidationContracts \cup OtherSources) /\ [][NextValidation]_vars

(***************************************************************************)
(* Claims about the validation operations                                  *)
(***************************************************************************)
\* validateRequestAgainstContract has just returned for a request object and
\* a description whose path declares placeholders
PlaceholdersChecked ==
  /\ ret.kind = "return"
  /\ ret.op = "validateRequestAgainstContract"
  /\ ret.args[1].t = "object"
  /\ Truthy(Described)
  /\ Get(Described, <<"p", "a", "t", "h">>).t = "string"
  /\ PathParams(Get(Described, <<"p", "a", "t", "h">>).s) # <<>>

\* the placeholders of the path of the description, one per occurrence
DeclaredPlaceholders == PathParams(Get(Described, <<"p", "a", "t", "h">>).s)

\* request.params of the request just checked
SuppliedParams == Get(ret.args[1], <<"p", "a", "r", "a", "m", "s">>)

Supplies(params, name) == Get(params, name) # JUndefined

\* how many 'Missing required path parameter: <name>' errors a result carries
MissingParamCount(errors, name) ==
  Cardinality({i \in 1..Len(errors) :
    errors[i] = Msg("Missing required path parameter: ${param}", <<JStr(name)>>)})

Occurrences(names, name) == Cardinality({i \in 1..Len(names) : names[i] = name})

\* a declared params or query schema meets a request value that is no object
ContainerMismatch(desc, request) ==
  \E part \in {<<"p", "a", "r", "a", "m", "s">>, <<"q", "u", "e", "r", "y">>} :
    /\ Truthy(Get(desc, part))
    /\ Truthy(Get(request, part))
    /\ TypeOf(Get(request, part)) # "object"

\* C3 as stated: for every request and every contract whose path declares
\* ':name' placeholders, validateRequestAgainstContract reports exactly one
\* 'Missing required path parameter: <name>' error for each placeholder name
\* request.params does not supply and none for a supplied name; when all
\* placeholders are supplied the result is success=true with no errors.
C3_OneErrorPerOmittedName ==
  PlaceholdersChecked =>
    /\ \A i \in 1..Len(DeclaredPlaceholders) :
         MissingParamCount(ret.value.errors, DeclaredPlaceholders[i])
           = IF Supplies(SuppliedParams, DeclaredPlaceholders[i]) THEN 0 ELSE 1
    /\ (\A i \in 1..Len(DeclaredPlaceholders) :
          Supplies(SuppliedParams, DeclaredPlaceholders[i]))
         => (ret.value.success /\ ret.value.errors = <<>>)

\* C3 amended: when the request carries a (truthy) params value, there is one
\* 'Missing required path parameter: <name>' error for each occurrence in the
\* path of a placeholder that params does not supply and none for a supplied
\* name; when the request carries no params, the single error 'Path contains
\* parameters (...) but no params object was provided' stands for all of
\* them; when all placeholders are supplied no path-parameter error is
\* reported, and success=true unless a declared params or query schema meets
\* a request value that is not an object.
C3_MissingPathParameters ==
  PlaceholdersChecked =>
    IF Truthy(SuppliedParams)
    THEN /\ \A i \in 1..Len(DeclaredPlaceholders) :
              MissingParamCount(ret.value.errors, DeclaredPlaceholders[i])
                = IF Supplies(SuppliedParams, DeclaredPlaceholders[i]) THEN 0
                  ELSE Occurrences(DeclaredPlaceholders, DeclaredPlaceholders[i])
         /\ \A i \in 1..Len(ret.value.errors) :
              ret.value.errors[i].id #
                "Path contains parameters (${pathParams.join(', ')}) but no params object was provided"
         /\ (\A i \in 1..Len(DeclaredPlaceholders) :
               Supplies(SuppliedParams, DeclaredPlaceholders[i]))
              => (ret.value.success <=> ~ContainerMismatch(Described, ret.args[1]))
    ELSE /\ \A i \in 1..Len(DeclaredPlaceholders) :
              MissingParamCount(ret.value.errors, DeclaredPlaceholders[i]) = 0
         /\ Cardinality({i \in 1..Len(ret.value.errors) :
              ret.value.errors[i] =
                Msg("Path contains parameters (${pathParams.join(', ')}) but no params object was provided",
                    <<JStrings(DeclaredPlaceholders)>>)}) = 1
         /\ ~ret.value.success

\* a path with two different placeholders, a request that supplies one of them
C3_Witness ==
  /\ PlaceholdersChecked
  /\ Truthy(SuppliedParams)
  /\ \E i, j \in 1..Len(DeclaredPlaceholders) :
       /\ Supplies(SuppliedParams, DeclaredPlaceholders[i])
       /\ ~Supplies(SuppliedParams, DeclaredPlaceholders[j])
       /\ MissingParamCount(ret.value.errors, DeclaredPlaceholders[j]) = 1

\* validateResponseAgainstContract has just returned for a numeric status
\* code that has no entry in the response mapping of the description
UndeclaredStatusChecked ==
  /\ ret.kind = "return"
  /\ ret.op = "validateResponseAgainstContract"
  /\ Truthy(Described)
  /\ StatusCodeParam(ret.args[2]).t = "number"
  /\ ~(Get(Described, <<"r", "e", "s", "p", "o", "n", "s", "e">>).t = "object"
        /\ HasKey(Get(Described, <<"r", "e", "s", "p", "o", "n", "s", "e">>).o,
                  NumToString(StatusCodeParam(ret.args[2]).n)))

\* the status codes the description declares
DeclaredStatusCodes ==
  IF Get(Described, <<"r", "e", "s", "p", "o", "n", "s", "e">>).t = "object"
  THEN RawKeys(Get(Described, <<"r", "e", "s", "p", "o", "n", "s", "e">>).o)
  ELSE <<>>

\* C4 as stated: validateResponseAgainstContract called with a statusCode
\* that has no entry in the response mapping returns success=false with an
\* error that lists the declared status codes, for every payload value.
C4_ErrorListsDeclaredCodes ==
  UndeclaredStatusChecked =>
    /\ ~ret.value.success
    /\ DeclaredStatusCodes # <<>> =>
         \E i \in 1..Len(ret.value.errors) :
           \E j \in 1..Len(ret.value.errors[i].args) :
             ret.value.errors[i].args[j] = JStrings(DeclaredStatusCodes)

\* C4 amended: such a call returns success=false with the single error
\* 'Contract does not define a response for status code <statusCode>', for
\* every payload value; the error names the requested code only, and the
\* declared status codes are listed in details.definedStatusCodes (with
\* details.suggestions) when the contract declares at least one.
C4_UndeclaredStatusCode ==
  UndeclaredStatusChecked =>
    /\ ~ret.value.success
    /\ ret.value.errors =
         <<Msg("Contract does not define a response for status code ${statusCode}",
               <<StatusCodeParam(ret.args[2])>>)>>
    /\ IF DeclaredStatusCodes # <<>>
       THEN /\ Get(ret.value.details, <<"d", "e", "f", "i", "n", "e", "d", "S", "t", "a", "t", "u", "s", "C", "o", "d", "e", "s">>).t = "array"
            /\ {Get(ret.value.details, <<"d", "e", "f", "i", "n", "e", "d", "S", "t", "a", "t", "u", "s", "C", "o", "d", "e", "s">>).a[i] :
                  i \in 1..Len(DeclaredStatusCodes)}
                 = {JStr(DeclaredStatusCodes[i]) : i \in 1..Len(DeclaredStatusCodes)}
            /\ HasKey(ret.value.details.o, <<"s", "u", "g", "g", "e", "s", "t", "i", "o", "n", "s">>)
       ELSE /\ ~HasKey(ret.value.details.o, <<"d", "e", "f", "i", "n", "e", "d", "S", "t", "a", "t", "u", "s", "C", "o", "d", "e", "s">>)
            /\ ~HasKey(ret.value.details.o, <<"s", "u", "g", "g", "e", "s", "t", "i", "o", "n", "s">>)

\* an undeclared status code with a null payload, two codes declared
C4_Witness ==
  /\ UndeclaredStatusChecked
  /\ ret.args[1] = JNull
  /\ Len(DeclaredStatusCodes) = 2
  /\ ~ret.value.success

ValidationOperations ==
  {"validateContract", "validateRequestType", "validateResponseType",
   "validateRequestAgainstContract", "validateResponseAgainstContract"}

\* the file the call that just completed named cannot be read
FileMissing ==
  resolveContractPath(ret.contractPath) \notin Locations
  \/ ~files[resolveContractPath(ret.contractPath)].exists

\* C5: for a contract reference whose file is missing or unreadable each of
\* the five validation operations returns (never throws) a ValidationResult
\* with success=false and exactly one error; no fault raised inside these
\* operations reaches the caller.
C5_FaultsBecomeResults ==
  (ret.kind # "none" /\ ret.op \in ValidationOperations) =>
    /\ ret.kind = "return"
    /\ FileMissing => (~ret.value.success /\ Len(ret.value.errors) = 1)

\* validateRequestAgainstContract has returned for a missing file
C5_Witness ==
  /\ ret.kind = "return"
  /\ ret.op = "validateRequestAgainstContract"
  /\ FileMissing
  /\ ~ret.value.success
  /\ Len(ret.value.errors) = 1

\* C6: in every ValidationResult returned by one of the five validation
\* operations success is true if and only if the result carries no error;
\* warnings never change success.
C6_SuccessIffNoError ==
  (ret.kind = "return" /\ ret.op \in ValidationOperations) =>
    (ret.value.success <=> ret.value.errors = <<>>)

\* a result that succeeds although it carries a warning
C6_Witness ==
  /\ ret.kind = "return"
  /\ ret.op \in ValidationOperations
  /\ ret.value.warnings # <<>>
  /\ ret.value.success

(***************************************************************************)
(* Claims about the life cycle of the adapter                              *)
(***************************************************************************)
\* C8: two validateContract calls on the same contract reference, with the
\* file and the contracts directory unchanged between them, return
\* ValidationResults with identical success, errors, warnings and details,
\* whatever the adapter was before the first call (never initialized,
\* initialized or cleaned up).
C8_ValidateContractIdempotent ==
  lastVC.calls = 2 =>
    /\ lastVC.prev.success = lastVC.last.success
    /\ lastVC.prev.errors = lastVC.last.errors
    /\ lastVC.prev.warnings = lastVC.last.warnings
    /\ lastVC.prev.details = lastVC.last.details

\* the first of the two calls built the program (the adapter had no program:
\* never initialized, or cleaned up) and both found a valid contract
C8_Witness ==
  /\ lastVC.calls = 2
  /\ lastVC.lazy
  /\ lastVC.prev.success
  /\ lastVC.last.success

StubChecked ==
  ret.kind # "none" /\ ret.op \in {"checkTypeExistence", "checkTypeProperty"}

OperationCompletes ==
  ret'.kind # "none" /\ ret'.op \notin {"initialize", "cleanup"}

\* the file the operation completing in this step names can be read
ReadSucceeds ==
  /\ resolveContractPath(ret'.contractPath) \in Locations
  /\ files[resolveContractPath(ret'.contractPath)].exists

C11_ReleasedUntilInitialize ==
  released => (program = NullProgram /\ typeChecker = "null")


(***************************************************************************)
(* Concurrent callers: up to MaxPending validation calls on one contract   *)
(* location are suspended on their file reads together and resume in any   *)
(* order; the file, the directory and the life cycle change only while no  *)
(* call is in flight                                                       *)
(***************************************************************************)
MaxPending == 2

Quiet == pending = <<>>

CanStart ==
  /\ Len(pending) < MaxPending
  /\ \A i \in 1..Len(pending) : pending[i].op # "initialize"

NextConcurrent ==
  \/ Quiet /\ InvokeInitialize
  \/ Initialize
  \/ Quiet /\ Cleanup
  \/ Quiet /\ WriteFile(LifecycleFiles) /\ files'[LocInSub] = files[LocInSub]
  \/ Quiet /\ ChangeDirectoryAccess
  \/ CanStart /\ InvokeValidateContract({TheRef})
  \/ ValidateContract
  \/ CanStart /\ InvokeValidateRequestType({TheRef})
  \/ ValidateRequestType
  \/ CanStart /\ InvokeValidateResponseType({TheRef})
  \/ ValidateResponseType
  \/ CanStart /\ InvokeValidateRequestAgainstContract({TheRef}, SomeRequests)
  \/ ValidateRequestAgainstContract
  \/ CanStart /\ InvokeValidateResponseAgainstContract({TheRef}, SomeResponses,
                                                       SomeStatusCodes)
  \/ ValidateResponseAgainstContract

\* the subdirectory stays empty: only the location the calls name changes
InitConcurrent == Init /\ files[LocInSub] = NoFile

SpecConcurrent == InitConcurrent /\ [][NextConcurrent]_vars

\* what the validation call `call` delivers when its read completes on an
\* adapter whose fields are `prog` and `checker`
ValidationOutcomeFrom(prog, checker, call) ==
  LET info == readContractFrom(prog, checker, call.contractPath)
  IN CASE call.op = "validateContract" -> validateContract(call.contractPath, info)
       [] call.op = "validateRequestType" -> validateRequestType(call.contractPath, info)
       [] call.op = "validateResponseType" -> validateResponseType(call.contractPath, info)
       [] call.op = "validateRequestAgainstContract" ->
            validateRequestAgainstContract(call.contractPath, call.args[1], info)
       [] call.op = "validateResponseAgainstContract" ->
            validateResponseAgainstContract(call.contractPath, call.args[1],
                                            call.args[2], info)

\* what it delivers when its read completes now
ValidationOutcome(call) == ValidationOutcomeFrom(program, typeChecker, call)

\* the validation calls still suspended
SuspendedValidations ==
  { pending[i] : i \in { j \in 1..Len(pending) : pending[j].op \in ValidationOperations } }

\* what `call` delivers when it resumes after the suspended call `other`
\* has run to its end
OutcomeAfter(other, call) ==
  LET left == readContract(other.contractPath)
  IN ValidationOutcomeFrom(left.program, left.typeChecker, call)

\* C12: validation calls on one contract location that are in flight
\* together, resumed in any order with the files unchanged, each return the
\* ValidationResult they return when run one after another in any order.  A
\* call runs alone from its resumption on, so an interleaving is a sequential
\* run in resumption order; whichever suspended call resumes first, every
\* suspended call (that one included, run once more) returns afterwards what
\* it returns when it resumes first itself, and the call that has just
\* returned returns the same when run again.
C12_ConcurrentAsSequential ==
  /\ \A other \in SuspendedValidations, call \in SuspendedValidations :
       OutcomeAfter(other, call) = ValidationOutcome(call)
  /\ (ret.kind # "none" /\ ret.op \in ValidationOperations) =>
       [kind |-> ret.kind, value |-> ret.value]
         = ValidationOutcome(Call(ret.op, ret.contractPath, ret.args))

\* after cleanup(), a call that found a contract has succeeded and left a
\* program while another validation call on the same location is still
\* suspended
C12_Witness ==
  /\ ret.kind = "return"
  /\ ret.op \in ValidationOperations
  /\ ret.value.success
  /\ released
  /\ program.created
  /\ SuspendedValidations # {}
  /\ \A call \in SuspendedValidations :
       resolveContractPath(call.contractPath) = resolveContractPath(ret.contractPath)

(***************************************************************************)
(* Initialization over a directory that no longer changes: the files, the  *)
(* directory and the program may be anything before the first initialize() *)
(* returns (earlier calls, cleanup(), changes on disk) and nothing but     *)
(* initialize() and validation calls happens afterwards                    *)
(***************************************************************************)
NextInitialize ==
  \/ CanInvoke /\ InvokeInitialize
  \/ Initialize
  \/ ~initialized /\ Cleanup
  \/ ~initialized /\ WriteFile(LifecycleFiles)
  \/ ~initialized /\ ChangeDirectoryAccess
  \/ CanInvoke /\ InvokeValidateContract(ContractRefs)
  \/ ValidateContract
  \/ CanInvoke /\ InvokeValidateRequestType(ContractRefs)
  \/ ValidateRequestType
  \/ CanInvoke /\ InvokeValidateResponseType(ContractRefs)
  \/ ValidateResponseType
  \/ CanInvoke /\ InvokeValidateRequestAgainstContract(ContractRefs, SomeRequests)
  \/ ValidateRequestAgainstContract
  \/ CanInvoke /\ InvokeValidateResponseAgainstContract(ContractRefs, SomeResponses,
                                                        SomeStatusCodes)
  \/ ValidateResponseAgainstContract

SpecInitialize == Init /\ [][NextInitialize]_vars

\* the validation calls made after initialization
LaterCalls ==
  { Call(op, contractPath, <<>>) :
      op \in {"validateContract", "validateRequestType", "validateResponseType"},
      contractPath \in ContractRefs }
  \cup { Call("validateRequestAgainstContract", contractPath, <<request>>) :
           contractPath \in ContractRefs, request \in SomeRequests }
  \cup { Call("validateResponseAgainstContract", contractPath, <<response, statusCode>>) :
           contractPath \in ContractRefs, response \in SomeResponses,
           statusCode \in SomeStatusCodes }

\* the step is the return of an initialize() call
InitializeReturns == ret'.kind # "none" /\ ret'.op = "initialize"

\* one more initialize() now would change no result of a later call
SameLaterResults ==
  LET again == initTypeScriptCompiler(program, typeChecker)
  IN \A call \in LaterCalls :
       ValidationOutcomeFrom(again.program, again.typeChecker, call)
         = ValidationOutcome(call)

\* C13: initialize() is idempotent: with the contracts directory unchanged,
\* an initialize() call made after initialize() has returned leaves the
\* program and the type checker as the first call left them (the same
\* compiled files), and every later validation call returns what it returns
\* after the first call alone.
C13_InitializeIdempotent ==
  /\ []((initialized /\ pending = <<>>) => SameLaterResults)
  /\ [][(initialized /\ InitializeReturns)
          => (program' = program /\ typeChecker' = typeChecker)]_vars

\* initialize() has returned over a directory whose files it compiled and
\* has been called again: the second call is about to resume
C13_Witness ==
  /\ initialized
  /\ program.created
  /\ findContractFiles # {}
  /\ Len(pending) = 1
  /\ pending[1].op = "initialize"


\* C14 as stated: initialize() on an adapter whose contracts directory is
\* missing or inaccessible completes without throwing, and every validation
\* call made afterwards (the directory still inaccessible) returns a
\* ValidationResult with success=false and errors; none throws.
C14_DegradedInitialization ==
  /\ (ret.kind # "none" /\ ret.op = "initialize") => ret.kind = "return"
  /\ (initialized /\ ~dirReadable /\ ret.kind # "none"
        /\ ret.op \in ValidationOperations)
       => /\ ret.kind = "return"
          /\ ~ret.value.success
          /\ ret.value.errors # <<>>


\* C15 as stated: re-initialization replaces the cache wholesale: after
\* every initialize() call the compiled program covers exactly the .ts/.js
\* files present in the contracts directory at that call, so nothing an
\* earlier initialize() compiled survives; when the directory has become
\* empty or unreadable no stale program remains.
C15_CacheReplacedWholesale ==
  [][InitializeReturns =>
       \A l \in Locations :
         program'.sourceFiles[l] = IF l \in findContractFiles THEN files[l] ELSE NoFile]_vars


(***************************************************************************)
(* Specification of single generateMockResponse calls: the directory holds *)
(* one file, under a name that selects the api-key list shape, the api-key *)
(* record shape or neither, holding a contract whose response mapping      *)
(* declares up to MaxResponseKeys status codes in any order                *)
(***************************************************************************)
MockLocations == {LocInDir, LocPlain, LocPost}

\* the reference of a file relative to the contracts directory
RelativeRef(l) == SubSeq(l, Len(contractsBasePath) + 2, Len(l))

MockRefs == { RelativeRef(l) : l \in MockLocations }

\* the property names the response mappings are written with
MockStatusKeyNames ==
  {NumericLiteral(<<"2", "0", "0">>), NumericLiteral(<<"2", "0", "1">>), NumericLiteral(<<"4", "0", "4">>),
   Identifier(<<"o", "k">>)}

MockContracts ==
  {ContractFile(<<Prop(<<"p", "a", "t", "h">>, StringLiteral(<<"/", "a", "d", "m", "i", "n", "/", "a", "p", "i", "-", "k", "e", "y", "s">>)),
                  Prop(<<"m", "e", "t", "h", "o", "d">>, StringLiteral(<<"g", "e", "t">>))>> \o response) :
     response \in {<<>>} \cup
       {<<Prop(<<"r", "e", "s", "p", "o", "n", "s", "e">>, ResponseMapping(names))>> :
          names \in SeqsUpTo(MockStatusKeyNames, 0, MaxResponseKeys)}}
  \cup {SourceFile(<<TypeAliasDeclaration(<<"R", "e", "s", "p", "o", "n", "s", "e">>)>>)}

MockStatusCodes == {JUndefined, JNum(200), JNum(404), JNum(500)}

InitMock ==
  /\ Constructed
  /\ dirReadable = TRUE
  /\ \E at \in MockLocations, source \in MockContracts :
       files = [l \in Locations |-> IF l = at THEN source ELSE NoFile]

NextMock ==
  \/ Fresh /\ InvokeGenerateMockResponse(MockRefs, MockStatusCodes)
  \/ GenerateMockResponse

SpecMock == InitMock /\ [][NextMock]_vars

\* generateMockResponse has returned for a reference whose file holds a
\* contract (a `Contract` object literal)
MockGenerated ==
  /\ ret.kind = "return"
  /\ ret.op = "generateMockResponse"
  /\ Described.t = "object"

\* the status code the call was requested with (200 when none was passed)
RequestedStatusCode == StatusCodeParam(ret.args[1])

\* the base name selects the list of api keys
NamesApiKeyGet ==
  /\ StrIncludes(ContractName(ret.contractPath), <<"a", "p", "i", "-", "k", "e", "y">>)
  /\ StrIncludes(ContractName(ret.contractPath), <<"g", "e", "t">>)

\* the base name selects the single api-key record
NamesApiKeyPost ==
  /\ StrIncludes(ContractName(ret.contractPath), <<"a", "p", "i", "-", "k", "e", "y">>)
  /\ StrIncludes(ContractName(ret.contractPath), <<"p", "o", "s", "t">>)

\* v is a record with fields id, status, permissions (strings) and createdAt
IsKeyRecord(v) ==
  /\ v.t = "object"
  /\ \A k \in {<<"i", "d">>, <<"s", "t", "a", "t", "u", "s">>, <<"p", "e", "r", "m", "i", "s", "s", "i", "o", "n", "s">>, <<"c", "r", "e", "a", "t", "e", "d", "A", "t">>} : HasKey(v.o, k)
  /\ Get(v, <<"i", "d">>).t = "string"
  /\ Get(v, <<"s", "t", "a", "t", "u", "s">>).t = "string"
  /\ Get(v, <<"p", "e", "r", "m", "i", "s", "s", "i", "o", "n", "s">>).t = "array"
  /\ \A i \in 1..Len(Get(v, <<"p", "e", "r", "m", "i", "s", "s", "i", "o", "n", "s">>).a) : Get(v, <<"p", "e", "r", "m", "i", "s", "s", "i", "o", "n", "s">>).a[i].t = "string"

\* the result is the api-key list: success, a sequence of one or more key
\* records
IsApiKeyList(result) ==
  /\ result.success
  /\ result.data.t = "array"
  /\ Len(result.data.a) >= 1
  /\ \A i \in 1..Len(result.data.a) : IsKeyRecord(result.data.a[i])

\* C16 as stated: generateMockResponse on a contract whose base file name
\* contains 'api-key' and 'get', requested with statusCode=200, returns
\* success=true with data a sequence of at least one record, each having
\* id, status, permissions (a sequence of strings) and createdAt.
C16_ApiKeyListFor200 ==
  (MockGenerated /\ NamesApiKeyGet /\ RequestedStatusCode = JNum(200))
    => IsApiKeyList(ret.value)


\* the contract declares a response descriptor under the key `code`
Declares(code) ==
  /\ Get(Described, <<"r", "e", "s", "p", "o", "n", "s", "e">>).t = "object"
  /\ Truthy(Get(Get(Described, <<"r", "e", "s", "p", "o", "n", "s", "e">>), NumToString(code)))

\* the keys of the contract's response mapping, in Object.keys order
MockDeclaredKeys ==
  IF Get(Described, <<"r", "e", "s", "p", "o", "n", "s", "e">>).t = "object"
  THEN ObjectKeys(Get(Described, <<"r", "e", "s", "p", "o", "n", "s", "e">>))
  ELSE <<>>

\* the result is the generic shape {id, timestamp, success, message}
IsGenericShape(result) ==
  /\ result.success
  /\ result.type = "generic"
  /\ result.data.t = "object"
  /\ [i \in 1..Len(result.data.o) |-> result.data.o[i][1]]
       = <<<<"i", "d">>, <<"t", "i", "m", "e", "s", "t", "a", "m", "p">>, <<"s", "u", "c", "c", "e", "s", "s">>, <<"m", "e", "s", "s", "a", "g", "e">>>>
  /\ Get(result.data, <<"i", "d">>).t = "string"
  /\ Get(result.data, <<"s", "u", "c", "c", "e", "s", "s">>) = JBool(TRUE)

\* C16 amended: for a contract whose base file name contains 'api-key' and
\* 'get', requested with statusCode=200 (or with none), generateMockResponse
\* returns the list of key records (success=true, one or more records with
\* id, status, permissions as strings and createdAt) when the contract
\* declares a response for 200; when it declares none for 200 the result is
\* that of its first declared status code (the generic shape unless that key
\* reads as 200), and with no declared status code it is the error result.
C16_ApiKeyListWhenDeclared ==
  (MockGenerated /\ NamesApiKeyGet /\ RequestedStatusCode = JNum(200))
    => IF Declares(200)
       THEN IsApiKeyList(ret.value) /\ ret.value.type = "Array<APIAuthKey>"
       ELSE IF MockDeclaredKeys = <<>>
       THEN ret.value = MockError
       ELSE IF ParseInt(MockDeclaredKeys[1]) = [nan |-> FALSE, n |-> 200]
       THEN IsApiKeyList(ret.value)
       ELSE IsGenericShape(ret.value)

\* the list of two key records has been returned for 'api-key.get.ts'
C16_Witness ==
  /\ MockGenerated
  /\ NamesApiKeyGet
  /\ RequestedStatusCode = JNum(200)
  /\ Declares(200)
  /\ IsApiKeyList(ret.value)
  /\ Len(ret.value.data.a) = 2


\* the base name selects neither api-key shape
NameNotRecognized == ~NamesApiKeyGet /\ ~NamesApiKeyPost

\* C17 as stated: generateMockResponse on a contract whose base name is not
\* recognized (it selects neither the api-key get shape nor the api-key post
\* shape) returns success=true with type 'generic' and data of the shape
\* {id, timestamp, success, message}.
C17_GenericForOtherNames ==
  (MockGenerated /\ NameNotRecognized) => IsGenericShape(ret.value)

\* C17 amended: for a contract whose base name is not recognized,
\* generateMockResponse returns the generic shape (success=true, type
\* 'generic', data {id, timestamp, success, message}) when the contract
\* declares at least one status code, and the error result (success=false,
\* data null, type 'error') when it declares none.
C17_GenericWhenDeclared ==
  (MockGenerated /\ NameNotRecognized)
    => IF MockDeclaredKeys = <<>>
       THEN ret.value = MockError
       ELSE IsGenericShape(ret.value)

\* the generic shape has been returned for 'users.ts'
C17_Witness ==
  /\ MockGenerated
  /\ NameNotRecognized
  /\ ContractName(ret.contractPath) = <<"u", "s", "e", "r", "s">>
  /\ MockDeclaredKeys # <<>>
  /\ IsGenericShape(ret.value)


\* generateMockResponse has returned for a contract that declares status
\* codes but none (with a descriptor) for the requested one
FallbackTaken ==
  /\ MockGenerated
  /\ RequestedStatusCode.t = "number"
  /\ ~Declares(RequestedStatusCode.n)
  /\ MockDeclaredKeys # <<>>

\* the keys of the response mapping in the order they are written in the
\* object literal
WrittenKeys ==
  LET response == Get(Described, <<"r", "e", "s", "p", "o", "n", "s", "e">>)
  IN [i \in 1..Len(response.o) |-> response.o[i][1]]

\* the status the generic message names
StatusInMessage == Get(ret.value.data, <<"m", "e", "s", "s", "a", "g", "e">>).args[2]

\* the result is the one generated for the status `code` (parseInt's
\* reading of a key)
GeneratedFor(code) ==
  IF NamesApiKeyGet /\ code = [nan |-> FALSE, n |-> 200]
  THEN IsApiKeyList(ret.value)
  ELSE IF NamesApiKeyPost /\ ~NamesApiKeyGet /\ ~code.nan /\ code.n \in {200, 201}
  THEN ret.value.success /\ ret.value.type = "APIAuthKey"
  ELSE IsGenericShape(ret.value) /\ StatusInMessage = code

\* C18 as stated: asked for a status code the contract does not declare,
\* generateMockResponse uses the first declared status code, i.e. the one
\* written first in the contract's response object literal (first inserted
\* wins), for every declaration order of the status codes.
C18_FirstWrittenWins ==
  FallbackTaken => GeneratedFor(ParseInt(WrittenKeys[1]))

\* the keys written as canonical non-negative integers
IntegerKeys == { i \in 1..Len(WrittenKeys) : IsArrayIndex(WrittenKeys[i]) }

\* the key the fallback takes: the smallest integer key when there is one,
\* else the first written key
FallbackKey ==
  IF IntegerKeys # {}
  THEN WrittenKeys[CHOOSE i \in IntegerKeys :
                     \A j \in IntegerKeys :
                       DigitsValue(WrittenKeys[i]) <= DigitsValue(WrittenKeys[j])]
  ELSE WrittenKeys[1]

\* C18 amended: asked for a status code the contract does not declare,
\* generateMockResponse uses the first key in the iteration order of the
\* response mapping: the numerically smallest of the keys written as
\* integers, whatever the order they are written in, and the first written
\* key only when no key is an integer.
C18_FirstIteratedWins ==
  FallbackTaken => GeneratedFor(ParseInt(FallbackKey))

\* the fallback has passed over the key written first (404) and taken 200
C18_Witness ==
  /\ FallbackTaken
  /\ NameNotRecognized
  /\ WrittenKeys[1] = <<"4", "0", "4">>
  /\ FallbackKey = <<"2", "0", "0">>
  /\ StatusInMessage = [nan |-> FALSE, n |-> 200]


\* C19 as stated: the same configured mock.seed produces the same mock data:
\* two generateMockResponse calls for the same contract and status code on
\* adapters constructed with the same seed return identical data.  The seed
\* is stored in this.mock by the constructor and read by no generator, so
\* the second adapter differs from the first one only in the values that
\* Math.random() and the clock happen to give its call.
C19_SameSeedSameData ==
  (ret.kind = "return" /\ ret.op = "generateMockResponse")
    => \A stream \in RandomStreams, now \in Times :
         generateMockResponse(ret.contractPath, ret.args[1],
                              readContract(ret.contractPath), stream, now).value.data
           = ret.value.data


(***************************************************************************)
(* TypedAPIAddon: the capabilities it registers call the adapter it owns   *)
(***************************************************************************)
\* handler of the capability 'validateResponseAgainstContract':
\* `async (contractPath, response) => this.adapter
\* .validateResponseAgainstContract(contractPath, response)`; a third
\* argument given to the handler is dropped
validateResponseAgainstContractHandler(contractPath, response, statusCode, info) ==
  validateResponseAgainstContract(contractPath, response, JUndefined, info)

\* handler of the capability 'generateMockResponse':
\* `async (contractPath) => this.adapter.generateMockResponse(contractPath)`
generateMockResponseHandler(contractPath, statusCode, info, stream, now) ==
  generateMockResponse(contractPath, JUndefined, info, stream, now)

InvokeValidateResponseAgainstContractHandler(refs, responses, statusCodes) ==
  \E contractPath \in refs, response \in responses, statusCode \in statusCodes :
    Invoke("handler validateResponseAgainstContract", contractPath,
           <<response, statusCode>>)

ValidateResponseAgainstContractHandler ==
  \E i \in 1..Len(pending) :
    /\ pending[i].op = "handler validateResponseAgainstContract"
    /\ Complete(i, validateResponseAgainstContractHandler(
                              pending[i].contractPath, pending[i].args[1],
                              pending[i].args[2],
                              readContract(pending[i].contractPath)))

InvokeGenerateMockResponseHandler(refs, statusCodes) ==
  \E contractPath \in refs, statusCode \in statusCodes :
    Invoke("handler generateMockResponse", contractPath, <<statusCode>>)

GenerateMockResponseHandler ==
  \E i \in 1..Len(pending), stream \in RandomStreams, now \in Times :
    /\ pending[i].op = "handler generateMockResponse"
    /\ Complete(i, generateMockResponseHandler(
                              pending[i].contractPath, pending[i].args[1],
                              readContract(pending[i].contractPath), stream, now))

\* single capability invocations on the contracts of SpecMock
NextAddon ==
  \/ Fresh /\ InvokeValidateResponseAgainstContractHandler(MockRefs, SomeResponses,
                                                           MockStatusCodes)
  \/ ValidateResponseAgainstContractHandler
  \/ Fresh /\ InvokeGenerateMockResponseHandler(MockRefs, MockStatusCodes)
  \/ GenerateMockResponseHandler

SpecAddon == InitMock /\ [][NextAddon]_vars

\* C20 as stated: the capabilities validateResponseAgainstContract and
\* generateMockResponse registered by TypedAPIAddon accept the optional
\* statusCode: the handler invoked with (ref, ..., statusCode) returns what
\* the adapter method returns for that statusCode (for the mock, with what
\* the random draws and the clock give), for every statusCode.
C20_HandlersPassStatusCode ==
  /\ (ret.kind # "none" /\ ret.op = "handler validateResponseAgainstContract")
       => [kind |-> ret.kind, value |-> ret.value]
            = validateResponseAgainstContract(ret.contractPath, ret.args[1], ret.args[2],
                                              readContract(ret.contractPath))
  /\ (ret.kind # "none" /\ ret.op = "handler generateMockResponse")
       => \E stream \in RandomStreams, now \in Times :
            [kind |-> ret.kind, value |-> ret.value]
              = generateMockResponse(ret.contractPath, ret.args[1],
                                     readContract(ret.contractPath), stream, now)


(***************************************************************************)
(* Construction: the options the adapter keeps                             *)
(***************************************************************************)
\* v === null || v === undefined
Nullish(v) == v.t \in {"undefined", "null"}

\* v ?? d
Coalesce(v, d) == IF Nullish(v) THEN d ELSE v

\* v?.k
OptionalGet(v, k) == IF Nullish(v) THEN JUndefined ELSE Get(v, k)

\* the keys of an object in the order they were inserted
InsertedKeys(o) == [i \in 1..Len(o) |-> o[i][1]]

\* { ...o, ...source }: the own properties of `source` (none when it is
\* null or undefined) are copied over those of `o`, whatever their value
RECURSIVE CopyProperties(_, _, _)
CopyProperties(o, source, keys) ==
  IF keys = <<>> THEN o
  ELSE CopyProperties(ObjSet(o, Head(keys), Get(source, Head(keys))), source, Tail(keys))

Spread(o, source) ==
  IF source.t = "object" THEN CopyProperties(o, source, InsertedKeys(source.o)) ELSE o

\* new TypedAPIAdapter(config): this.validation and this.mock; `random` is
\* what Math.floor(Math.random() * 10000) gives
TypedAPIAdapter(config, random) ==
  LET validation == Get(config, <<"v", "a", "l", "i", "d", "a", "t", "i", "o", "n">>)
      mock == Get(config, <<"m", "o", "c", "k">>)
  IN [validation |->
        JObj(Spread(
          <<<<<<"s", "t", "r", "i", "c", "t", "M", "o", "d", "e">>, Coalesce(OptionalGet(validation, <<"s", "t", "r", "i", "c", "t", "M", "o", "d", "e">>), JBool(TRUE))>>,
            <<<<"a", "l", "l", "o", "w", "E", "x", "t", "r", "a", "P", "r", "o", "p", "e", "r", "t", "i", "e", "s">>,
              Coalesce(OptionalGet(validation, <<"a", "l", "l", "o", "w", "E", "x", "t", "r", "a", "P", "r", "o", "p", "e", "r", "t", "i", "e", "s">>), JBool(FALSE))>>,
            <<<<"v", "a", "l", "i", "d", "a", "t", "e", "T", "y", "p", "e", "s">>, Coalesce(OptionalGet(validation, <<"v", "a", "l", "i", "d", "a", "t", "e", "T", "y", "p", "e", "s">>), JBool(TRUE))>>,
            <<<<"v", "a", "l", "i", "d", "a", "t", "e", "P", "a", "t", "h", "s">>, Coalesce(OptionalGet(validation, <<"v", "a", "l", "i", "d", "a", "t", "e", "P", "a", "t", "h", "s">>), JBool(TRUE))>> >>,
          validation)),
      mock |->
        JObj(Spread(
          <<<<<<"g", "e", "n", "e", "r", "a", "t", "e", "R", "e", "a", "l", "i", "s", "t", "i", "c", "D", "a", "t", "a">>,
              Coalesce(OptionalGet(mock, <<"g", "e", "n", "e", "r", "a", "t", "e", "R", "e", "a", "l", "i", "s", "t", "i", "c", "D", "a", "t", "a">>), JBool(TRUE))>>,
            <<<<"l", "o", "c", "a", "l", "e">>, Coalesce(OptionalGet(mock, <<"l", "o", "c", "a", "l", "e">>), JStr(<<"e", "n", "-", "U", "S">>))>>,
            <<<<"s", "e", "e", "d">>, Coalesce(OptionalGet(mock, <<"s", "e", "e", "d">>), JNum(random))>>,
            <<<<"c", "u", "s", "t", "o", "m", "G", "e", "n", "e", "r", "a", "t", "o", "r", "s">>, Coalesce(OptionalGet(mock, <<"c", "u", "s", "t", "o", "m", "G", "e", "n", "e", "r", "a", "t", "o", "r", "s">>), JObj(<<>>))>> >>,
          mock))]

\* `new TypedAPIAdapter(config)` is evaluated: the fields are set and the
\* caller gets the adapter
New(configs, randoms) ==
  \E config \in configs, random \in randoms :
    /\ Fresh
    /\ program' = NullProgram
    /\ typeChecker' = "null"
    /\ ret' = [kind |-> "return", op |-> "constructor", contractPath |-> <<>>,
               args |-> <<config>>, value |-> TypedAPIAdapter(config, random)]
    /\ UNCHANGED <<files, dirReadable, pending, lastVC, initialized, released>>

\* --- configurations: each option is omitted, undefined or given ------------
ValidationOptions ==
  <<<<<<"s", "t", "r", "i", "c", "t", "M", "o", "d", "e">>, JBool(FALSE)>>, <<<<"a", "l", "l", "o", "w", "E", "x", "t", "r", "a", "P", "r", "o", "p", "e", "r", "t", "i", "e", "s">>, JBool(TRUE)>>,
    <<<<"v", "a", "l", "i", "d", "a", "t", "e", "T", "y", "p", "e", "s">>, JBool(FALSE)>>, <<<<"v", "a", "l", "i", "d", "a", "t", "e", "P", "a", "t", "h", "s">>, JBool(FALSE)>> >>

MockOptions ==
  <<<<<<"g", "e", "n", "e", "r", "a", "t", "e", "R", "e", "a", "l", "i", "s", "t", "i", "c", "D", "a", "t", "a">>, JBool(FALSE)>>, <<<<"l", "o", "c", "a", "l", "e">>, JStr(<<"d", "e", "-", "D", "E">>)>>,
    <<<<"s", "e", "e", "d">>, JNum(12345)>>, <<<<"c", "u", "s", "t", "o", "m", "G", "e", "n", "e", "r", "a", "t", "o", "r", "s">>, JObj(<<<<<<"e", "m", "a", "i", "l">>, JStr(<<"(", ")", " ", "=", ">", " ", "'", "t", "e", "s", "t", "@", "e", "x", "a", "m", "p", "l", "e", ".", "c", "o", "m", "'">>)>> >>)>> >>

\* the object literal that gives, leaves undefined or omits each option
RECURSIVE OptionLiteral(_, _, _)
OptionLiteral(options, choice, i) ==
  IF i > Len(options) THEN <<>>
  ELSE (CASE choice[i] = "omitted" -> <<>>
          [] choice[i] = "undefined" -> <<<<options[i][1], JUndefined>> >>
          [] choice[i] = "given" -> <<options[i]>>)
       \o OptionLiteral(options, choice, i + 1)

Sections(options) ==
  {JUndefined} \cup
  { JObj(OptionLiteral(options, choice, 1)) :
      choice \in [1..Len(options) -> {"omitted", "undefined", "given"}] }

\* a configuration with the given sections (an undefined section is omitted)
Config(validation, mock) ==
  JObj((IF validation = JUndefined THEN <<>> ELSE <<<<<<"v", "a", "l", "i", "d", "a", "t", "i", "o", "n">>, validation>> >>)
       \o (IF mock = JUndefined THEN <<>> ELSE <<<<<<"m", "o", "c", "k">>, mock>> >>))

Configs ==
  { Config(validation, mock) :
      validation \in Sections(ValidationOptions), mock \in Sections(MockOptions) }

SeedDraws == {0, 4711, 9999}

InitConstructor ==
  /\ Constructed
  /\ dirReadable = TRUE
  /\ files = [l \in Locations |-> NoFile]

NextConstructor == New(Configs, SeedDraws)

SpecConstructor == InitConstructor /\ [][NextConstructor]_vars

\* the adapter has been constructed
Built == ret.kind = "return" /\ ret.op = "constructor"

\* the caller gave no value for option `k` of section `section`
NotGiven(section, k) ==
  Nullish(Get(ret.args[1], section)) \/ Get(Get(ret.args[1], section), k) = JUndefined

\* option `k` of the section the adapter keeps
Kept(section, k) ==
  Get(IF section = <<"v", "a", "l", "i", "d", "a", "t", "i", "o", "n">> THEN ret.value.validation ELSE ret.value.mock, k)

\* C21 as stated: after construction with any configuration, every
\* validation and mock option the caller gave no value for (omitted or
\* undefined) holds its default: strictMode=true,
\* allowExtraProperties=false, validateTypes=true, validatePaths=true,
\* generateRealisticData=true, locale='en-US', seed a number,
\* customGenerators an empty mapping.
C21_DefaultsForUngiven ==
  Built =>
    /\ NotGiven(<<"v", "a", "l", "i", "d", "a", "t", "i", "o", "n">>, <<"s", "t", "r", "i", "c", "t", "M", "o", "d", "e">>) => Kept(<<"v", "a", "l", "i", "d", "a", "t", "i", "o", "n">>, <<"s", "t", "r", "i", "c", "t", "M", "o", "d", "e">>) = JBool(TRUE)
    /\ NotGiven(<<"v", "a", "l", "i", "d", "a", "t", "i", "o", "n">>, <<"a", "l", "l", "o", "w", "E", "x", "t", "r", "a", "P", "r", "o", "p", "e", "r", "t", "i", "e", "s">>)
         => Kept(<<"v", "a", "l", "i", "d", "a", "t", "i", "o", "n">>, <<"a", "l", "l", "o", "w", "E", "x", "t", "r", "a", "P", "r", "o", "p", "e", "r", "t", "i", "e", "s">>) = JBool(FALSE)
    /\ NotGiven(<<"v", "a", "l", "i", "d", "a", "t", "i", "o", "n">>, <<"v", "a", "l", "i", "d", "a", "t", "e", "T", "y", "p", "e", "s">>)
         => Kept(<<"v", "a", "l", "i", "d", "a", "t", "i", "o", "n">>, <<"v", "a", "l", "i", "d", "a", "t", "e", "T", "y", "p", "e", "s">>) = JBool(TRUE)
    /\ NotGiven(<<"v", "a", "l", "i", "d", "a", "t", "i", "o", "n">>, <<"v", "a", "l", "i", "d", "a", "t", "e", "P", "a", "t", "h", "s">>)
         => Kept(<<"v", "a", "l", "i", "d", "a", "t", "i", "o", "n">>, <<"v", "a", "l", "i", "d", "a", "t", "e", "P", "a", "t", "h", "s">>) = JBool(TRUE)
    /\ NotGiven(<<"m", "o", "c", "k">>, <<"g", "e", "n", "e", "r", "a", "t", "e", "R", "e", "a", "l", "i", "s", "t", "i", "c", "D", "a", "t", "a">>)
         => Kept(<<"m", "o", "c", "k">>, <<"g", "e", "n", "e", "r", "a", "t", "e", "R", "e", "a", "l", "i", "s", "t", "i", "c", "D", "a", "t", "a">>) = JBool(TRUE)
    /\ NotGiven(<<"m", "o", "c", "k">>, <<"l", "o", "c", "a", "l", "e">>) => Kept(<<"m", "o", "c", "k">>, <<"l", "o", "c", "a", "l", "e">>) = JStr(<<"e", "n", "-", "U", "S">>)
    /\ NotGiven(<<"m", "o", "c", "k">>, <<"s", "e", "e", "d">>) => Kept(<<"m", "o", "c", "k">>, <<"s", "e", "e", "d">>).t = "number"
    /\ NotGiven(<<"m", "o", "c", "k">>, <<"c", "u", "s", "t", "o", "m", "G", "e", "n", "e", "r", "a", "t", "o", "r", "s">>)
         => Kept(<<"m", "o", "c", "k">>, <<"c", "u", "s", "t", "o", "m", "G", "e", "n", "e", "r", "a", "t", "o", "r", "s">>) = JObj(<<>>)


(***************************************************************************)
(* Path placeholders without a params schema                               *)
(***************************************************************************)
ParamsPathProps ==
  {<<Prop(<<"p", "a", "t", "h">>, StringLiteral(<<"/", "u", "s", "e", "r", "s">>))>>,
   <<Prop(<<"p", "a", "t", "h">>, StringLiteral(<<"/", "u", "s", "e", "r", "s", "/", ":", "i", "d">>))>>,
   <<Prop(<<"p", "a", "t", "h">>, StringLiteral(<<"/", "o", "r", "g", "s", "/", ":", "o", "r", "g", "/", "u", "s", "e", "r", "s", "/", ":", "i", "d">>))>>}

ParamsProps ==
  {<<>>,
   <<Prop(<<"p", "a", "r", "a", "m", "s">>, Expression(<<"P", "a", "r", "a", "m", "s", "S", "c", "h", "e", "m", "a">>))>>,
   <<Prop(<<"p", "a", "r", "a", "m", "s">>, NullKeyword)>>,
   <<Prop(<<"p", "a", "r", "a", "m", "s">>, StringLiteral(<<>>))>>}

ParamsAuthProps ==
  {<<>>,
   AuthorizationProp(<<Prop(<<"r", "o", "l", "e", "s">>, StringLiteral(<<"a", "d", "m", "i", "n">>))>>),
   AuthorizationProp(<<Prop(<<"c", "l", "a", "i", "m", "s">>, ArrayLiteralExpression(<<NullKeyword>>))>>)}

ParamsContracts ==
  {ContractFile(p \o m \o s
                \o <<Prop(<<"r", "e", "s", "p", "o", "n", "s", "e">>, ResponseMapping(<<NumericLiteral(<<"2", "0", "0">>)>>))>> \o a) :
     p \in ParamsPathProps,
     m \in {<<Prop(<<"m", "e", "t", "h", "o", "d">>, StringLiteral(<<"g", "e", "t">>))>>, <<Prop(<<"m", "e", "t", "h", "o", "d">>, StringLiteral(<<"p", "o", "s", "t">>))>>},
     s \in ParamsProps,
     a \in ParamsAuthProps}

NextParams ==
  \/ Fresh /\ InvokeValidateContract({TheRef})
  \/ ValidateContract
  \/ Fresh /\ InvokeValidateRequestType({TheRef})
  \/ ValidateRequestType

SpecParams == InitWith(ParamsContracts) /\ [][NextParams]_vars

\* the messages of `list` that say the path has placeholders and no params
\* schema is defined
NoParamsSchemaMessages(list) ==
  {i \in 1..Len(list) :
     list[i].id = "Path contains parameters (${pathParams.join(', ')}) but no params schema is defined"}

\* the path of the description has a ':name' placeholder and the description
\* declares no params field
PlaceholdersWithoutParamsField ==
  /\ Get(Described, <<"p", "a", "t", "h">>).t = "string"
  /\ PathParams(Get(Described, <<"p", "a", "t", "h">>).s) # <<>>
  /\ ~HasKey(Described.o, <<"p", "a", "r", "a", "m", "s">>)

\* C22 as stated: validateRequestType returns success=false with a 'Path
\* contains parameters ... but no params schema is defined' error exactly when
\* the path has at least one ':name' placeholder and the contract declares no
\* params field; validateContract reports the same condition only as a
\* warning, which leaves success unchanged.
C22_NoParamsSchema ==
  /\ (ret.kind = "return" /\ ret.op = "validateRequestType" /\ Truthy(Described)) =>
       ((~ret.value.success /\ NoParamsSchemaMessages(ret.value.errors) # {})
          <=> PlaceholdersWithoutParamsField)
  /\ ContractChecked =>
       /\ (NoParamsSchemaMessages(ret.value.warnings) # {}) <=> PlaceholdersWithoutParamsField
       /\ NoParamsSchemaMessages(ret.value.errors) = {}


(***************************************************************************)
(* Body warnings of validateRequestAgainstContract                         *)
(***************************************************************************)
\* validateRequestAgainstContract has just returned for a request object and
\* a description
RequestChecked ==
  /\ ret.kind = "return"
  /\ ret.op = "validateRequestAgainstContract"
  /\ ret.args[1].t = "object"
  /\ Truthy(Described)

\* the request just checked carries a body
CarriesBody == Truthy(Get(ret.args[1], <<"b", "o", "d", "y">>))

HasWarning(list, id) == \E i \in 1..Len(list) : list[i].id = id

\* C23 as stated: validateRequestAgainstContract adds the warning 'GET
\* requests should not have a body' for every request that carries a body
\* when the contract's method is get, whether or not the contract declares a
\* body schema, and adds a missing-body warning for every request without a
\* body when the method is post, put or patch.
C23_BodyWarnings ==
  RequestChecked =>
    /\ (Get(Described, <<"m", "e", "t", "h", "o", "d">>) = JStr(<<"g", "e", "t">>) /\ CarriesBody)
         => HasWarning(ret.value.warnings, "GET requests should not have a body")
    /\ (Get(Described, <<"m", "e", "t", "h", "o", "d">>) \in {JStr(<<"p", "o", "s", "t">>), JStr(<<"p", "u", "t">>), JStr(<<"p", "a", "t", "c", "h">>)}
          /\ ~CarriesBody)
         => HasWarning(ret.value.warnings, "${contract.method.toUpperCase()} request is missing a body")


(***************************************************************************)
(* Authorization rules of validateContract                                 *)
(***************************************************************************)
\* marks a property a contract does not write
LeftOut == [k |-> "LeftOut"]

\* what a contract writes for roles
RoleInitializers ==
  {StringLiteral(<<"a", "d", "m", "i", "n">>),
   ArrayLiteralExpression(<<StringLiteral(<<"a", "d", "m", "i", "n">>), StringLiteral(<<"u", "s", "e", "r">>)>>),
   ArrayLiteralExpression(<<>>),
   ArrayLiteralExpression(<<NumericLiteral(<<"1">>), NumericLiteral(<<"2">>)>>),
   NumericLiteral(<<"5">>),
   NumericLiteral(<<"0">>),
   ObjectLiteralExpression(<<Prop(<<"a", "d", "m", "i", "n">>, TrueKeyword)>>)}

\* a claim element `{ userClaimPath: u, routeParamName: r }`, a field being
\* left out when it is LeftOut
ClaimLiteral(u, r) ==
  ObjectLiteralExpression(
    (IF u = LeftOut THEN <<>> ELSE <<Prop(<<"u", "s", "e", "r", "C", "l", "a", "i", "m", "P", "a", "t", "h">>, u)>>)
    \o (IF r = LeftOut THEN <<>> ELSE <<Prop(<<"r", "o", "u", "t", "e", "P", "a", "r", "a", "m", "N", "a", "m", "e">>, r)>>))

ClaimElements ==
  {ClaimLiteral(u, r) :
     u \in {LeftOut, StringLiteral(<<>>), StringLiteral(<<"s", "u", "b">>)},
     r \in {LeftOut, StringLiteral(<<"u", "s", "e", "r", "I", "d">>)}}
  \cup {NullKeyword}

ClaimsInitializers ==
  {StringLiteral(<<"s", "u", "b">>), NumericLiteral(<<"0">>), ObjectLiteralExpression(<<>>)}
  \cup {ArrayLiteralExpression(elements) : elements \in SeqsUpTo(ClaimElements, 0, 2)}

\* the properties of an authorization object: each of roles, scopes and
\* claims is left out or written with one of its initializers
AuthorizationProps ==
  {(IF roles = LeftOut THEN <<>> ELSE <<Prop(<<"r", "o", "l", "e", "s">>, roles)>>)
   \o (IF scopes = LeftOut THEN <<>> ELSE <<Prop(<<"s", "c", "o", "p", "e", "s">>, scopes)>>)
   \o (IF claims = LeftOut THEN <<>> ELSE <<Prop(<<"c", "l", "a", "i", "m", "s">>, claims)>>) :
     roles \in RoleInitializers \cup {LeftOut},
     scopes \in {LeftOut, StringLiteral(<<"r", "e", "a", "d">>), TrueKeyword,
                 ArrayLiteralExpression(<<StringLiteral(<<"r", "e", "a", "d">>), NullKeyword>>)},
     claims \in ClaimsInitializers \cup {LeftOut}}

AuthContracts ==
  {ContractFile(<<Prop(<<"p", "a", "t", "h">>, StringLiteral(<<"/", "u", "s", "e", "r", "s">>)),
                  Prop(<<"m", "e", "t", "h", "o", "d">>, StringLiteral(<<"g", "e", "t">>)),
                  Prop(<<"r", "e", "s", "p", "o", "n", "s", "e">>, ResponseMapping(<<NumericLiteral(<<"2", "0", "0">>)>>))>>
                \o AuthorizationProp(props)) :
     props \in AuthorizationProps}

SpecAuth == InitWith(AuthContracts) /\ [][NextContract]_vars

\* auth.authorization.<field> of the description, when it is present
AuthorizationField(field) == Get(Authorization(Described), field)

FieldPresent(field) ==
  /\ Authorization(Described).t = "object"
  /\ HasKey(Authorization(Described).o, field)

\* a string, or a sequence whose elements are all strings
StringOrStrings(v) ==
  \/ v.t = "string"
  \/ v.t = "array" /\ \A i \in 1..Len(v.a) : v.a[i].t = "string"

\* C24 as stated: validateContract reports an error whenever
\* auth.authorization.roles (respectively scopes) is present and is neither a
\* string nor a sequence whose elements are all strings, and reports no
\* roles/scopes error when it is a string or a sequence of strings.
C24_RolesAndScopes ==
  ContractChecked =>
    /\ FieldPresent(<<"r", "o", "l", "e", "s">>) =>
         (HasWarning(ret.value.errors, "Authorization roles must be a string or array of strings")
            <=> ~StringOrStrings(AuthorizationField(<<"r", "o", "l", "e", "s">>)))
    /\ FieldPresent(<<"s", "c", "o", "p", "e", "s">>) =>
         (HasWarning(ret.value.errors, "Authorization scopes must be a string or array of strings")
            <=> ~StringOrStrings(AuthorizationField(<<"s", "c", "o", "p", "e", "s">>)))


\* how many errors of `errors` name claim `index` and the field of message `id`
ClaimErrorCount(errors, id, index) ==
  Cardinality({i \in 1..Len(errors) : errors[i] = Msg(id, <<JNum(index)>>)})

\* the element carries no `field`, or an empty one
MissingOrEmpty(element, field) ==
  \/ element.t # "object"
  \/ ~HasKey(element.o, field)
  \/ Get(element, field) = JStr(<<>>)

\* C25 as stated: when auth.authorization.claims is present, validateContract
\* reports 'Authorization claims must be an array' if it is not a sequence,
\* and otherwise reports, for every element at position i, one error naming
\* index i for each of userClaimPath and routeParamName that is missing or
\* empty, and no claim error for an element carrying both non-empty.
C25_ClaimsErrors ==
  (ContractChecked /\ FieldPresent(<<"c", "l", "a", "i", "m", "s">>)) =>
    LET claims == AuthorizationField(<<"c", "l", "a", "i", "m", "s">>)
    IN IF ~IsArray(claims)
       THEN HasWarning(ret.value.errors, "Authorization claims must be an array")
       ELSE \A i \in 1..Len(claims.a) :
              /\ ClaimErrorCount(ret.value.errors,
                   "Claim at index ${index} is missing required field userClaimPath", i - 1)
                   = IF MissingOrEmpty(claims.a[i], <<"u", "s", "e", "r", "C", "l", "a", "i", "m", "P", "a", "t", "h">>) THEN 1 ELSE 0
              /\ ClaimErrorCount(ret.value.errors,
                   "Claim at index ${index} is missing required field routeParamName", i - 1)
                   = IF MissingOrEmpty(claims.a[i], <<"r", "o", "u", "t", "e", "P", "a", "r", "a", "m", "N", "a", "m", "e">>) THEN 1 ELSE 0


(***************************************************************************)
(* Extraction of the Contract object literal                               *)
(***************************************************************************)
\* the members an object literal of a contract is written with
LiteralMembers ==
  {Prop(<<"p", "a", "t", "h">>, StringLiteral(<<"/", "u", "s", "e", "r", "s">>)),
   Prop(<<"l", "i", "m", "i", "t">>, NumericLiteral(<<"5">>)),
   Prop(<<"d", "e", "p", "r", "e", "c", "a", "t", "e", "d">>, TrueKeyword),
   Prop(<<"i", "n", "t", "e", "r", "n", "a", "l">>, FalseKeyword),
   Prop(<<"q", "u", "e", "r", "y">>, NullKeyword),
   Prop(<<"b", "o", "d", "y">>, Expression(<<"B", "o", "d", "y", "S", "c", "h", "e", "m", "a">>)),
   ShorthandPropertyAssignment(Identifier(<<"m", "e", "t", "h", "o", "d">>)),
   PropertyAssignment(StringLiteral(<<"s", "u", "m", "m", "a", "r", "y">>), StringLiteral(<<"L", "i", "s", "t", " ", "u", "s", "e", "r", "s">>)),
   Prop(<<"r", "e", "s", "p", "o", "n", "s", "e">>, ObjectLiteralExpression(<<
     PropertyAssignment(NumericLiteral(<<"2", "0", "0">>), Descriptor),
     PropertyAssignment(StringLiteral(<<"4", "0", "4">>), Descriptor)>>)),
   Prop(<<"a", "u", "t", "h">>, ObjectLiteralExpression(<<
     Prop(<<"r", "e", "q", "u", "i", "r", "e", "d">>, TrueKeyword),
     ShorthandPropertyAssignment(Identifier(<<"a", "u", "t", "h", "o", "r", "i", "z", "a", "t", "i", "o", "n">>))>>)),
   Prop(<<"t", "a", "g", "s">>, ArrayLiteralExpression(<<
     StringLiteral(<<"u", "s", "e", "r", "s">>), NumericLiteral(<<"1">>), NullKeyword, Expression(<<"T", "A", "G">>),
     ArrayLiteralExpression(<<FalseKeyword>>),
     ObjectLiteralExpression(<<Prop(<<"n", "a", "m", "e">>, StringLiteral(<<"a", "d", "m", "i", "n">>))>>)>>))}

\* the field name a member declares
DeclaredName(member) == member.name.text

MaxMembers == 2

\* object literals of up to MaxMembers members with distinct names
LiteralContracts ==
  {ContractFile(members) :
     members \in {ms \in SeqsUpTo(LiteralMembers, 0, MaxMembers) :
                    \A i, j \in 1..Len(ms) :
                      DeclaredName(ms[i]) = DeclaredName(ms[j]) => i = j}}

SpecExtraction == InitWith(LiteralContracts) /\ [][NextContract]_vars

\* the object literal the file at LocInDir initialises Contract with
ContractLiteral == files[LocInDir].statements[1].initializer

RECURSIVE NativeValue(_)
\* the value a literal stands for: native for string, number, boolean and
\* null literals, member by member for object and array literals, the source
\* text for any other expression
NativeValue(node) ==
  CASE node.k = "StringLiteral" -> JStr(node.text)
    [] node.k = "NumericLiteral" -> JNum(DigitsValue(node.text))
    [] node.k = "TrueKeyword" -> JBool(TRUE)
    [] node.k = "FalseKeyword" -> JBool(FALSE)
    [] node.k = "NullKeyword" -> JNull
    [] node.k = "ObjectLiteralExpression" ->
         JObj([i \in 1..Len(node.properties) |->
                 <<DeclaredName(node.properties[i]),
                   NativeValue(IF node.properties[i].k = "ShorthandPropertyAssignment"
                               THEN node.properties[i].name
                               ELSE node.properties[i].initializer)>>])
    [] node.k = "ArrayLiteralExpression" ->
         JArr([i \in 1..Len(node.elements) |-> NativeValue(node.elements[i])])
    [] OTHER -> JStr(node.text)

\* C26 as stated: every property declared in the Contract object literal (and
\* in nested object and array literals, at any depth) appears in the contract
\* description under its declared field name, with a native value for
\* string/number/boolean/null literals, a recursively extracted value for
\* object/array literals and the exact source text for any other expression;
\* no declared property is dropped or renamed.
C26_ExtractionTotal ==
  ContractChecked =>
    \A i \in 1..Len(ContractLiteral.properties) :
      LET member == ContractLiteral.properties[i]
      IN /\ HasKey(Described.o, DeclaredName(member))
         /\ Get(Described, DeclaredName(member))
              = NativeValue(ObjectLiteralExpression(<<member>>)).o[1][2]


(***************************************************************************)
(* Where a contract file lies and when it appeared                         *)
(***************************************************************************)
\* the file declares `Contract` as an object literal
DeclaresContractLiteral(file) ==
  /\ file.exists
  /\ \E i \in 1..Len(file.statements) :
       /\ file.statements[i].k = "VariableStatement"
       /\ GetText(file.statements[i].name) = <<"C", "o", "n", "t", "r", "a", "c", "t">>
       /\ file.statements[i].initializer.k = "ObjectLiteralExpression"

\* the result says that the file has no Contract export
SaysExportNotFound(result) ==
  \E i \in 1..Len(result.errors) :
    result.errors[i].id \in
      {"Contract export not found in the file",
       "Contract export not found in the file or could not parse source file"}

\* C27 as stated: the result of a validation operation for a readable
\* contract file depends only on the file's content and the arguments, not on
\* where the file lies or when it appeared: a file that declares `Contract` as
\* an object literal is extracted (no 'Contract export not found' result)
\* also when it lies in a subdirectory of the contracts directory or was
\* added after the program was compiled.
C27_ExtractedWhereverItLies ==
  (/\ ret.kind = "return"
   /\ ret.op \in ValidationOperations
   /\ resolveContractPath(ret.contractPath) \in Locations
   /\ DeclaresContractLiteral(files[resolveContractPath(ret.contractPath)]))
    => ~SaysExportNotFound(ret.value)


(***************************************************************************)
(* Program and type checker                                                *)
(***************************************************************************)
\* C28: in every reachable adapter state, after any sequence of constructor,
\* initialize(), cleanup() and operation calls, the program and the type
\* checker are either both null or both non-null.
C28_ProgramAndCheckerTogether == program.created <=> typeChecker # "null"

\* cleanup() has released a program and a later call has built program and
\* type checker again
C28_Witness == released /\ program.created /\ typeChecker # "null"


\* the contract declares no usable status code: no key of its response
\* mapping is an integer in 100..599
NoUsableStatusCode ==
  \A i \in 1..Len(MockDeclaredKeys) : ~IsStatusCodeString(MockDeclaredKeys[i])

\* C29 as stated: whenever generateMockResponse returns success=true, the
\* status code it generated the mock for is an integer in [100,599] that is
\* a declared key of the contract's response mapping (the requested code or
\* the fallback code); when the contract declares no usable status code it
\* returns success=false with data=null and type 'error'.
C29_MockForDeclaredCode ==
  MockGenerated =>
    /\ IsGenericShape(ret.value) =>
         /\ ~StatusInMessage.nan
         /\ StatusInMessage.n \in 100..599
         /\ \E i \in 1..Len(MockDeclaredKeys) :
              MockDeclaredKeys[i] = NumToString(StatusInMessage.n)
    /\ NoUsableStatusCode => ret.value = MockError


(***************************************************************************)
(* Lazy initialisation                                                     *)
(***************************************************************************)
\* the life cycle over a directory that stays as it is once the adapter
\* holds a program compiled from it
NextLazy ==
  \/ CanInvoke /\ InvokeInitialize
  \/ Initialize
  \/ Cleanup
  \/ ~program.created /\ WriteFile(LifecycleFiles)
  \/ ~program.created /\ ChangeDirectoryAccess
  \/ CanInvoke /\ InvokeValidateContract(ContractRefs)
  \/ ValidateContract
  \/ CanInvoke /\ InvokeValidateRequestType(ContractRefs)
  \/ ValidateRequestType
  \/ CanInvoke /\ InvokeValidateResponseType(ContractRefs)
  \/ ValidateResponseType
  \/ CanInvoke /\ InvokeValidateRequestAgainstContract(ContractRefs, SomeRequests)
  \/ ValidateRequestAgainstContract
  \/ CanInvoke /\ InvokeValidateResponseAgainstContract(ContractRefs, SomeResponses,
                                                        SomeStatusCodes)
  \/ ValidateResponseAgainstContract

SpecLazy == Init /\ [][NextLazy]_vars

\* initialize() was never called, or cleanup() has undone it
Uninitialized == ~initialized \/ released

\* what `call` delivers on an adapter constructed over the same files on
\* which initialize() has run first
InitializedFirstOutcome(call) ==
  LET first == initTypeScriptCompiler(NullProgram, "null")
  IN ValidationOutcomeFrom(first.program, first.typeChecker, call)

\* C30: a validation operation invoked on an adapter whose initialize() was
\* never called, or was undone by cleanup(), returns the same result as the
\* same operation on an adapter that was initialized first over the same
\* files: the program is built lazily on the first contract read.
C30_LazyAsInitialized ==
  Uninitialized =>
    /\ \A call \in LaterCalls : ValidationOutcome(call) = InitializedFirstOutcome(call)
    /\ (ret.kind # "none" /\ ret.op \in ValidationOperations) =>
         [kind |-> ret.kind, value |-> ret.value]
           = InitializedFirstOutcome(Call(ret.op, ret.contractPath, ret.args))

\* a validation call on an adapter that was never initialized has built the
\* program and has succeeded
C30_Witness ==
  /\ ~initialized
  /\ program.created
  /\ ret.kind = "return"
  /\ ret.op = "validateRequestType"
  /\ ret.value.success

====
